---- MODULE Spec2Model ----
(***************************************************************************)
(* A model of the Cyberdesk system: the kopf operator                      *)
(* (services/cyberdesk-operator/handlers/controller.py), the FastAPI       *)
(* gateway (services/gateway/main.py) and the generated SDK "wait" action  *)
(* model.  Kubernetes objects are records, Python dicts are functions      *)
(* whose DOMAIN is the set of keys present, and every handler is one       *)
(* action whose API-call outcomes are inputs drawn with \E.                *)
(***************************************************************************)
EXTENDS Integers, Sequences, FiniteSets, TLC

\* Python's None, and the value .get() gives for a key that is absent.
None == "None"

----------------------------------------------------------------------------
(* Bounds of the model *)

\* Logical time runs 0..MaxTime (one unit stands for the smallest lease).
MaxTime == 2
\* The clock of the provisioning specifications runs 0..ProvMaxTime.
ProvMaxTime == 1
\* A handler chain waiting for its clone is followed up to retry = MaxRetry,
\* one past the clone bound; the other chains up to retry = ShortRetry.
MaxRetry == 21
ShortRetry == 3
\* At most MaxFaults handler runs meet a failing API call in one behaviour.
MaxFaults == 1

(* Program constants *)

\* A bound that lets one more attempt wait.
MaxCloneWaitRetriesLate == 20 + 1

\* max_clone_wait_retries
MaxCloneWaitRetries == 20

\* Names of the Cyberdesk resources (meta["name"], the instance id).
Desks == {"desk-1", "desk-2"}
\* The warm-pool VMs in the order list_namespaced_custom_object returns them.
WarmVMs == <<"warm-1", "warm-2">>
WarmSet == {WarmVMs[i] : i \in 1..Len(WarmVMs)}
\* EXPECTED_VM_NAME = f'cyberdesk-{SAMPLE_CYBERDESK_NAME}' of the operator tests
ExpectedVmName(cyberdesk_name) == "cyberdesk-" \o cyberdesk_name
VMNames == WarmSet \cup Desks \cup {ExpectedVmName(d) : d \in Desks}
\* spec.timeoutMs values a Cyberdesk is created with (in time units).
Timeouts == {1, 2}

\* The value of timeoutMs[cd] for a Cyberdesk whose spec has no timeoutMs.
TimeoutAbsent == -1

\* The lease cyberdesk_create takes for a spec without timeoutMs.
DefaultTimeoutMs == 3600000

\* spec.get("timeoutMs") with nothing to fall back on.
SpecTimeoutMsNoDefault(m) == IF m = TimeoutAbsent THEN 0 ELSE m

\* spec.get("timeoutMs", 3_600_000)
SpecTimeoutMs(m) == IF m = TimeoutAbsent THEN DefaultTimeoutMs ELSE m

GOLDEN_SNAPSHOT_NAME == "snapshot-golden-vm"
MANAGED_BY == "cyberdesk-operator"

\* clone_op_name = f"clone-for-{instance_id}"
CloneNameFor(instance_id) == "clone-for-" \o instance_id
CloneNames == {CloneNameFor(d) : d \in Desks}

----------------------------------------------------------------------------
(* Python dict helpers *)

EmptyDict == [k \in {} |-> None]

\* d.get(k)
Get(d, k) == IF k \in DOMAIN d THEN d[k] ELSE None

TimeKeys == {"startTime", "expiryTime"}

\* A JSON merge patch of the status sub-dict: a key patched with None is
\* removed, any other key is set; keys the patch does not name are kept.
MergePatch(d, p) ==
    LET dropped == {k \in DOMAIN p \ TimeKeys : p[k] = None}
        keys    == (DOMAIN d \cup DOMAIN p) \ dropped
    IN  [k \in keys |-> IF k \in DOMAIN p THEN p[k] ELSE d[k]]

\* {**a, **b}
Overlay(a, b) == [k \in DOMAIN a \cup DOMAIN b |-> IF k \in DOMAIN b THEN b[k] ELSE a[k]]

----------------------------------------------------------------------------
VARIABLES
    crState,     \* per desk: "absent", "present" or "terminating" (deletionTimestamp set)
    finalizer,   \* per desk: the operator's finalizer is on the resource
    timeoutMs,   \* per desk: spec.timeoutMs
    status,      \* per desk: status.cyberdesk_create, a dict
    hstate,      \* per desk: progress of the on.create handler: "none", "todo", "done", "failed"
    retry,       \* per desk: kopf's retry counter of the running handler chain
    vms,         \* per VM name: the VirtualMachine object
    clones,      \* per clone name: the VirtualMachineClone object
    gatewayUrl,  \* GATEWAY_BASE_URL is set (TRUE) or None (FALSE)
    now,         \* the clock
    last,        \* what the operator handler run that made the latest step did (NoRun: none did)
    faults,      \* how many API calls have failed so far
    gwLog        \* per desk: the gateway's create/stop calls since the latest step of anything else

opVars == <<crState, finalizer, timeoutMs, status, hstate, retry, vms, clones,
            gatewayUrl, now, last, faults, gwLog>>

VARIABLES
    db,          \* per instance id: the status column of its cyberdesk_instances row, or "norow"
    stream,      \* per instance id: the stream_url column of its row, None when not set
    sync         \* what the datastore handler run that made the latest step did

syncVars == <<db, stream, sync>>

VARIABLES
    inCluster,   \* the gateway runs in the cluster (the service-account token file exists)
    pods,        \* per VM id: how many pods carry the label kubevirt.io/domain=<id>
    podRunning,  \* per VM id: whether the pod that carries the label is in phase Running
    resp         \* the gateway's latest answer to a proxied request

proxyVars == <<inCluster, pods, podRunning, resp>>

VARIABLES
    wire,        \* the wire object handed to from_dict, as it was received
    src_dict,    \* the caller's dict object, as the calls have left it
    obj,         \* the PostV1DesktopIdComputerActionWaitAction instance
    back,        \* what to_dict returned
    item,        \* what __getitem__ returned, as a one-key dict (empty: KeyError)
    sdkPc        \* "idle", "received", "parsed", "raised", "serialized"

sdkVars == <<wire, src_dict, obj, back, item, sdkPc>>

VARIABLES
    vmi,         \* per VM id: the phase of its VirtualMachineInstance, None when there is none
    vnc          \* the VNC proxy session of the gateway: where proxy_vnc is and what it did

vncVars == <<vmi, vnc>>

VARIABLES
    crd,         \* the CustomResourceDefinition cyberdesks.cyberdesk.io exists
    boot,        \* per StartCyberdeskOperator resource: progress and retry of crd_bootstrap
    bootLast     \* what the latest run of crd_bootstrap met and did

bootVars == <<crd, boot, bootLast>>

VARIABLES
    racePc,      \* per desk: "idle", or "listed": its run of cyberdesk_create has the list of warm VMs
    raceSeen,    \* per desk: the VMs as the list call of that run returned them
    pluck,       \* the latest call of get_free_vm_from_pool on its own: what it met and gave
    cached       \* per desk: the body kopf holds for the next run of the timer, if any

raceVars == <<racePc, raceSeen, pluck, cached>>

\* The state of the parts that follow the SDK model.
extVars == <<vncVars, bootVars, raceVars>>

vars == <<opVars, syncVars, proxyVars, sdkVars, extVars>>

NoVM == [exists |-> FALSE, warm |-> None, inUse |-> FALSE, owned |-> FALSE,
         printable |-> None, runAlways |-> FALSE, managed |-> FALSE,
         app |-> None, instance |-> None, hostname |-> None, subdomain |-> None]

WarmVM(printable) == [NoVM EXCEPT !.exists = TRUE, !.warm = "ready", !.owned = TRUE,
                                  !.printable = printable]

NoClone == [exists |-> FALSE, phase |-> None, source |-> None, target |-> None]

\* No gateway call to look back on.
NoCalls == [d \in Desks |-> <<>>]

NoRun == [h |-> "none", cd |-> None, retry |-> 0, outcome |-> "none",
          pre |-> EmptyDict, listed |-> FALSE, plucked |-> None,
          created |-> FALSE, deleted |-> FALSE, seen |-> "unseen", patched |-> None,
          notified |-> "none", apiOK |-> TRUE, at |-> 0]

InitOperator ==
    /\ crState = [d \in Desks |-> "absent"]
    /\ finalizer = [d \in Desks |-> FALSE]
    /\ timeoutMs = [d \in Desks |-> 1]
    /\ status = [d \in Desks |-> EmptyDict]
    /\ hstate = [d \in Desks |-> "none"]
    /\ retry = [d \in Desks |-> 0]
    /\ \E p \in [WarmSet -> {"Running", "Stopped"}] :
          vms = [n \in VMNames |-> IF n \in WarmSet THEN WarmVM(p[n]) ELSE NoVM]
    /\ clones = [c \in CloneNames |-> NoClone]
    /\ gatewayUrl \in BOOLEAN
    /\ now = 0
    /\ last = NoRun
    /\ faults = 0
    /\ gwLog = NoCalls

----------------------------------------------------------------------------
(* Warm pool: get_free_vm_from_pool *)

\* The items list_namespaced_custom_object returns for the selector
\* pool.kubevirt.io/warm=ready, in list order.
ListWarm(vmv) == SelectSeq(WarmVMs, LAMBDA n : vmv[n].exists /\ vmv[n].warm = "ready")

\* The pluck patch: ownerReferences removed, in-use=true, warm=claimed,
\* the other labels kept.
PluckPatch(vmv, vm_name) ==
    [vmv EXCEPT ![vm_name].owned = FALSE, ![vm_name].inUse = TRUE,
                ![vm_name].warm = "claimed"]

RECURSIVE PluckFirstGivingUp(_, _, _)
\* The loop ending the search at the first failed patch.
PluckFirstGivingUp(items, vmv, failing) ==
    IF items = <<>> THEN [name |-> None, vms |-> vmv]
    ELSE LET vm_name == Head(items) IN
         IF vmv[vm_name].inUse THEN PluckFirstGivingUp(Tail(items), vmv, failing)
         ELSE IF vmv[vm_name].printable # "Running"
              THEN PluckFirstGivingUp(Tail(items), vmv, failing)
         ELSE IF vm_name \in failing THEN [name |-> None, vms |-> vmv]
         ELSE [name |-> vm_name, vms |-> PluckPatch(vmv, vm_name)]

RECURSIVE PluckFirst(_, _, _)
\* The loop over the listed VMs: skip the ones in use, skip the ones not
\* Running, pluck the first one left; a failed patch (vm_name \in failing)
\* goes on to the next item.  Gives the plucked name (or None) and the VMs.
PluckFirst(items, vmv, failing) ==
    IF items = <<>> THEN [name |-> None, vms |-> vmv]
    ELSE LET vm_name == Head(items) IN
         IF vmv[vm_name].inUse THEN PluckFirst(Tail(items), vmv, failing)
         ELSE IF vmv[vm_name].printable # "Running"
              THEN PluckFirst(Tail(items), vmv, failing)
         ELSE IF vm_name \in failing THEN PluckFirst(Tail(items), vmv, failing)
         ELSE [name |-> vm_name, vms |-> PluckPatch(vmv, vm_name)]

\* get_free_vm_from_pool: a failed list raises TemporaryError.
GetFreeVmFromPool(vmv, listOK, failing) ==
    IF ~listOK THEN [raised |-> TRUE, name |-> None, vms |-> vmv]
    ELSE LET r == PluckFirst(ListWarm(vmv), vmv, failing)
         IN  [raised |-> FALSE, name |-> r.name, vms |-> r.vms]

----------------------------------------------------------------------------
(* VM patches *)

\* A patch helper that logs a failed patch and goes on.
EnsureVmPatchedIgnoringErrors(vmv, vm_name, callOK) ==
    IF callOK /\ vmv[vm_name].exists
    THEN [ok |-> TRUE,
          vms |-> [vmv EXCEPT ![vm_name].managed = TRUE,
                              ![vm_name].runAlways = TRUE,
                              ![vm_name].app = "cyberdesk",
                              ![vm_name].instance = vm_name,
                              ![vm_name].hostname = vm_name,
                              ![vm_name].subdomain = "kubevirt-vm-headless"]]
    ELSE [ok |-> TRUE, vms |-> vmv]

\* _ensure_vm_patched_and_running: the patch of VM vm_name; any ApiException
\* (a 404 for a VM that is gone included) becomes TemporaryError (ok = FALSE).
EnsureVmPatchedAndRunning(vmv, vm_name, callOK) ==
    IF callOK /\ vmv[vm_name].exists
    THEN [ok |-> TRUE,
          vms |-> [vmv EXCEPT ![vm_name].managed = TRUE,
                              ![vm_name].runAlways = TRUE,
                              ![vm_name].app = "cyberdesk",
                              ![vm_name].instance = vm_name,
                              ![vm_name].hostname = vm_name,
                              ![vm_name].subdomain = "kubevirt-vm-headless"]]
    ELSE [ok |-> FALSE, vms |-> vmv]

\* The identity patch of a plucked VM (cyberdesk_create, "Patch Plucked VM").
PatchPluckedVm(vmv, vm_name, instance_id) ==
    [vmv EXCEPT ![vm_name].managed = TRUE,
                ![vm_name].app = "cyberdesk",
                ![vm_name].instance = instance_id,
                ![vm_name].hostname = instance_id,
                ![vm_name].subdomain = "kubevirt-vm-headless"]

----------------------------------------------------------------------------
(* cyberdesk_create *)

\* A clone target named as the tests expect the VM to be named.
CloneTargetNameDerived(instance_id) == "cyberdesk-" \o instance_id

\* "target": {..., "name": instance_id}: the VM a clone makes is named as
\* the Cyberdesk is.
CloneTargetName(instance_id) == instance_id

\* The API-call outcomes one run of cyberdesk_create can meet.
AllOK == [listOK |-> TRUE, failing |-> {}, finalizeOK |-> TRUE, notifyOK |-> TRUE,
          ensureOK |-> TRUE, getCloneOK |-> TRUE, createOK |-> TRUE, deleteOK |-> TRUE]

\* What a run gives back: the status patch kopf applies after the handler,
\* the cluster objects, how the handler ended ("done": it returned, "retry":
\* kopf.TemporaryError, "failed": kopf.PermanentError) and what it did.
RunResult(vmv, cl) ==
    [patch |-> EmptyDict, vms |-> vmv, clones |-> cl, outcome |-> "done",
     listed |-> FALSE, plucked |-> None, created |-> FALSE, deleted |-> FALSE,
     seen |-> "unseen", patched |-> None, notified |-> "none", apiOK |-> TRUE]

\* A check that forgets the Plucked phase.
IsProvisionedCloneOnly(cur) ==
    /\ Get(cur, "virtualMachineRef") # None
    /\ Get(cur, "lastPhase") \in {"Cloned", "Running"}

\* "Idempotency Check: Already Provisioned?"
IsProvisioned(cur) ==
    /\ Get(cur, "virtualMachineRef") # None
    /\ Get(cur, "lastPhase") \in {"Plucked", "Cloned", "Running"}

\* The already-provisioned branch: re-assert the VM patch, backfill the
\* times when one is missing, write the status back.  Its handler for a 404
\* of the VM is never entered: _ensure_vm_patched_and_running has already
\* turned every ApiException into TemporaryError.
CreateProvisioned(instance_id, cur, vmv, cl, t, timeout_ms, inp) ==
    LET vm_ref == Get(cur, "virtualMachineRef")
        e      == EnsureVmPatchedAndRunning(vmv, vm_ref, inp.ensureOK)
        times  == [startTime |-> t, expiryTime |-> t + timeout_ms]
        filled == IF "startTime" \notin DOMAIN cur \/ "expiryTime" \notin DOMAIN cur
                  THEN Overlay(cur, times) ELSE cur
        p      == [k \in DOMAIN filled \ {"cloneOperationName"} |-> filled[k]]
    IN  IF ~e.ok
        THEN [RunResult(vmv, cl) EXCEPT !.outcome = "retry", !.apiOK = FALSE]
        ELSE [RunResult(vmv, cl) EXCEPT !.patch = p, !.vms = e.vms, !.patched = vm_ref]

\* A pluck patch was tried on a claimable VM and failed.
PluckPatchFailed(vmv, failing, plucked) ==
    \E i \in 1..Len(WarmVMs) :
        /\ WarmVMs[i] \in failing
        /\ vmv[WarmVMs[i]].exists /\ vmv[WarmVMs[i]].warm = "ready"
        /\ ~vmv[WarmVMs[i]].inUse /\ vmv[WarmVMs[i]].printable = "Running"
        /\ \/ plucked = None
           \/ \E j \in 1..Len(WarmVMs) : WarmVMs[j] = plucked /\ i < j

\* Initiate Cloning with the clone object created in the same run.
InitiateCloningEagerly(res, instance_id) ==
    [res EXCEPT !.patch = [cloneOperationName |-> CloneNameFor(instance_id),
                           lastPhase |-> "CloningInitiated",
                           virtualMachineRef |-> None],
                !.created = TRUE,
                !.clones = [res.clones EXCEPT ![CloneNameFor(instance_id)] =
                                [exists |-> TRUE, phase |-> None,
                                 source |-> GOLDEN_SNAPSHOT_NAME,
                                 target |-> instance_id]]]

\* State Initiate Cloning: no warm VM was plucked; the run records the
\* clone name and returns, res being the run so far.
InitiateCloning(res, instance_id) ==
    [res EXCEPT !.patch = [cloneOperationName |-> CloneNameFor(instance_id),
                           lastPhase |-> "CloningInitiated",
                           virtualMachineRef |-> None]]

\* The fresh branch once get_free_vm_from_pool has answered (pool): with a
\* plucked VM patch its identity, notify the gateway and record Plucked;
\* without one record CloningInitiated and return.
CreateFreshAfterPool(instance_id, vmv, cl, t, timeout_ms, gateway, inp, pool) ==
    LET base == [RunResult(vmv, cl) EXCEPT !.listed = TRUE]
    IN  IF pool.raised
        THEN [base EXCEPT !.outcome = "retry", !.apiOK = FALSE]
        ELSE LET ok == ~PluckPatchFailed(vmv, inp.failing, pool.name)
                 b2 == [base EXCEPT !.vms = pool.vms, !.plucked = pool.name, !.apiOK = ok]
             IN
             IF pool.name # None
             THEN IF ~inp.finalizeOK
                  THEN [b2 EXCEPT !.outcome = "retry", !.apiOK = FALSE]
                  ELSE LET v2 == PatchPluckedVm(pool.vms, pool.name, instance_id) IN
                       IF ~gateway
                       THEN [b2 EXCEPT !.vms = v2, !.outcome = "failed",
                                       !.notified = "skipped"]
                       ELSE [b2 EXCEPT !.vms = v2,
                                !.notified = IF inp.notifyOK THEN "ok" ELSE "failed",
                                !.patch = [virtualMachineRef |-> pool.name,
                                           startTime |-> t,
                                           expiryTime |-> t + timeout_ms,
                                           lastPhase |-> "Plucked",
                                           cloneOperationName |-> None]]
             ELSE InitiateCloning(b2, instance_id)

\* The fresh branch with get_free_vm_from_pool working on the VMs as they are.
CreateFresh(instance_id, cur, vmv, cl, t, timeout_ms, gateway, inp) ==
    CreateFreshAfterPool(instance_id, vmv, cl, t, timeout_ms, gateway, inp,
                         GetFreeVmFromPool(vmv, inp.listOK, inp.failing))

\* The status of a failed clone with the clone name left in place.
CloneFailedStatusKeepingName(cur) == Overlay(cur, [lastPhase |-> "CloneFailed"])

\* The status cyberdesk_create writes when the clone has phase Failed.
CloneFailedStatus(cur) ==
    Overlay(cur, [lastPhase |-> "CloneFailed",
                  cloneOperationName |-> None,
                  virtualMachineRef |-> None])

\* The status of a clone that succeeded, with the clone name left in place.
ClonedStatusKeepingClone(instance_id, t, timeout_ms) ==
    [virtualMachineRef |-> instance_id, startTime |-> t,
     expiryTime |-> t + timeout_ms, lastPhase |-> "Cloned"]

\* The status cyberdesk_create writes when the clone has succeeded.
ClonedStatus(instance_id, t, timeout_ms) ==
    [virtualMachineRef |-> instance_id,
     startTime |-> t,
     expiryTime |-> t + timeout_ms,
     lastPhase |-> "Cloned",
     cloneOperationName |-> None]

\* "Check Clone Status": get or create the clone object, then act on its phase.
CreateCloneCheck(instance_id, cur, r, vmv, cl, t, timeout_ms, inp) ==
    LET clone_op_name == Get(cur, "cloneOperationName")
        clone_obj == cl[clone_op_name]
        base == RunResult(vmv, cl)
    IN  IF ~inp.getCloneOK
        THEN [base EXCEPT !.outcome = "retry", !.apiOK = FALSE]
        ELSE IF ~clone_obj.exists
        THEN IF inp.createOK
             THEN [base EXCEPT !.outcome = "retry", !.seen = "absent", !.created = TRUE,
                               !.clones = [cl EXCEPT ![clone_op_name] =
                                    [exists |-> TRUE, phase |-> None,
                                     source |-> GOLDEN_SNAPSHOT_NAME,
                                     target |-> CloneTargetName(instance_id)]]]
             ELSE [base EXCEPT !.outcome = "retry", !.seen = "absent", !.apiOK = FALSE]
        ELSE LET clone_phase == clone_obj.phase
                 b2 == [base EXCEPT !.seen = clone_phase]
             IN
             IF clone_phase = "Succeeded"
             THEN LET e == EnsureVmPatchedAndRunning(vmv, instance_id, inp.ensureOK) IN
                  IF ~e.ok
                  THEN [b2 EXCEPT !.outcome = "retry", !.apiOK = FALSE]
                  ELSE [b2 EXCEPT !.vms = e.vms, !.patched = instance_id,
                                  !.patch = ClonedStatus(instance_id, t, timeout_ms)]
             ELSE IF clone_phase = "Failed"
             THEN [b2 EXCEPT !.outcome = "failed",
                             !.patch = CloneFailedStatus(cur)]
             ELSE IF clone_phase = "Unknown"
             THEN [b2 EXCEPT !.outcome = "retry"]
             ELSE IF r >= MaxCloneWaitRetries
             THEN [b2 EXCEPT !.outcome = "failed", !.deleted = TRUE,
                             !.apiOK = inp.deleteOK,
                             !.clones = IF inp.deleteOK
                                        THEN [cl EXCEPT ![clone_op_name] = NoClone]
                                        ELSE cl,
                             !.patch = Overlay(cur, [lastPhase |-> "CloneTimeout",
                                                     cloneOperationName |-> None,
                                                     virtualMachineRef |-> None])]
             ELSE [b2 EXCEPT !.outcome = "retry"]

\* cyberdesk_create going to the warm pool whenever the status names no VM,
\* a recorded cloneOperationName or not.
CreateRunPoolFirst(instance_id, cur, r, vmv, cl, t, timeout_ms, gateway, inp) ==
    IF IsProvisioned(cur)
    THEN CreateProvisioned(instance_id, cur, vmv, cl, t, timeout_ms, inp)
    ELSE CreateFresh(instance_id, cur, vmv, cl, t, timeout_ms, gateway, inp)

\* One run of cyberdesk_create on the resource instance_id with status cur.
CreateRun(instance_id, cur, r, vmv, cl, t, timeout_ms, gateway, inp) ==
    IF IsProvisioned(cur)
    THEN CreateProvisioned(instance_id, cur, vmv, cl, t, timeout_ms, inp)
    ELSE IF Get(cur, "cloneOperationName") = None
    THEN CreateFresh(instance_id, cur, vmv, cl, t, timeout_ms, gateway, inp)
    ELSE CreateCloneCheck(instance_id, cur, r, vmv, cl, t, timeout_ms, inp)

\* The API-call outcomes that matter to the branch a run with status cur takes.
InputsFor(cur) ==
    IF IsProvisioned(cur)
    THEN {[AllOK EXCEPT !.ensureOK = b] : b \in BOOLEAN}
    ELSE IF Get(cur, "cloneOperationName") = None
    THEN {[AllOK EXCEPT !.listOK = a, !.failing = f, !.finalizeOK = b, !.notifyOK = c] :
             a \in BOOLEAN, f \in SUBSET WarmSet, b \in BOOLEAN, c \in BOOLEAN}
    ELSE {[AllOK EXCEPT !.getCloneOK = a, !.createOK = b, !.ensureOK = c, !.deleteOK = e] :
             a \in BOOLEAN, b \in BOOLEAN, c \in BOOLEAN, e \in BOOLEAN}

\* kopf's bookkeeping of an on.create handler: a return ends the handler for
\* good, TemporaryError schedules the next attempt with retry + 1,
\* PermanentError ends it with no further attempt.
HandlerAfter(outcome) ==
    CASE outcome = "done" -> "done"
      [] outcome = "retry" -> "todo"
      [] outcome = "failed" -> "failed"

\* @kopf.on.create: one attempt of the handler on Cyberdesk cd.
CyberdeskCreate(cd) ==
    /\ crState[cd] = "present"
    /\ finalizer[cd]
    /\ hstate[cd] = "todo"
    /\ \E inp \in InputsFor(status[cd]) :
          LET res == CreateRun(cd, status[cd], retry[cd], vms, clones, now,
                               SpecTimeoutMs(timeoutMs[cd]), gatewayUrl, inp)
              smooth == CreateRun(cd, status[cd], retry[cd], vms, clones, now,
                                  SpecTimeoutMs(timeoutMs[cd]), gatewayUrl, AllOK)
          IN  /\ inp # AllOK => res # smooth /\ faults < MaxFaults
              /\ faults' = IF inp # AllOK THEN faults + 1 ELSE faults
              /\ status' = [status EXCEPT ![cd] = MergePatch(@, res.patch)]
              /\ vms' = res.vms
              /\ clones' = res.clones
              /\ hstate' = [hstate EXCEPT ![cd] = HandlerAfter(res.outcome)]
              /\ retry' = [retry EXCEPT ![cd] = IF res.outcome = "retry" THEN @ + 1 ELSE @]
              /\ last' = [h |-> "create", cd |-> cd, retry |-> retry[cd],
                          outcome |-> res.outcome, pre |-> status[cd],
                          listed |-> res.listed, plucked |-> res.plucked,
                          created |-> res.created, deleted |-> res.deleted,
                          seen |-> res.seen, patched |-> res.patched,
                          notified |-> res.notified, apiOK |-> res.apiOK, at |-> now]
    /\ gwLog' = NoCalls
    /\ UNCHANGED <<crState, finalizer, timeoutMs, gatewayUrl, now>>
    /\ UNCHANGED <<syncVars, proxyVars, sdkVars, extVars>>

----------------------------------------------------------------------------
(* The Kubernetes API server and kopf around the handlers *)

\* A Cyberdesk resource that is gone: nothing of it is left.
Released(cd) ==
    /\ crState' = [crState EXCEPT ![cd] = "absent"]
    /\ finalizer' = [finalizer EXCEPT ![cd] = FALSE]
    /\ timeoutMs' = [timeoutMs EXCEPT ![cd] = 1]
    /\ status' = [status EXCEPT ![cd] = EmptyDict]
    /\ hstate' = [hstate EXCEPT ![cd] = "none"]
    /\ retry' = [retry EXCEPT ![cd] = 0]

\* delete_namespaced_custom_object on a Cyberdesk that exists: with the
\* operator's finalizer on it the resource only gets its deletionTimestamp
\* and stays until the deletion handler is through, without one it is gone.
DeleteCyberdesk(cd) ==
    IF finalizer[cd]
    THEN /\ crState' = [crState EXCEPT ![cd] = "terminating"]
         /\ UNCHANGED <<finalizer, timeoutMs, status, hstate, retry>>
    ELSE Released(cd)

\* The latest two gateway calls for one id.
Logged(log, entry) == IF Len(log) < 2 THEN Append(log, entry) ELSE <<log[2], entry>>

\* kopf sees a new Cyberdesk: it puts its finalizer on it (the operator has
\* an on.delete handler) and schedules cyberdesk_create.
OperatorObserve(cd) ==
    /\ crState[cd] = "present"
    /\ ~finalizer[cd]
    /\ finalizer' = [finalizer EXCEPT ![cd] = TRUE]
    /\ hstate' = [hstate EXCEPT ![cd] = "todo"]
    /\ retry' = [retry EXCEPT ![cd] = 0]
    /\ last' = NoRun
    /\ gwLog' = NoCalls
    /\ UNCHANGED <<crState, timeoutMs, status, vms, clones, gatewayUrl, now, faults>>
    /\ UNCHANGED <<syncVars, proxyVars, sdkVars, extVars>>

\* The handler is delivered the same resource again after its chain ended
\* (the re-delivery a reconciler has to be idempotent under): a new chain
\* starts with retry = 0.
Redeliver(cd) ==
    /\ crState[cd] = "present"
    /\ hstate[cd] \in {"done", "failed"}
    /\ hstate' = [hstate EXCEPT ![cd] = "todo"]
    /\ retry' = [retry EXCEPT ![cd] = 0]
    /\ last' = NoRun
    /\ gwLog' = NoCalls
    /\ UNCHANGED <<crState, finalizer, timeoutMs, status, vms, clones, gatewayUrl,
                   now, faults>>
    /\ UNCHANGED <<syncVars, proxyVars, sdkVars, extVars>>

\* What delete_namespaced_custom_object can answer for an object that
\* exists or not: 200, or 404/410 for one that is gone, or another failure.
DeleteAnswers(exists) == IF exists THEN {200, 403, 500} ELSE {404, 410, 403, 500}

\* A cleanup that only logs a failed delete of the VM.
VmCleanupBestEffort(vmv, vm_name, answer) ==
    IF answer = 200
    THEN [done |-> TRUE, vms |-> [vmv EXCEPT ![vm_name] = NoVM], delay |-> 0]
    ELSE [done |-> TRUE, vms |-> vmv, delay |-> 0]

\* A cleanup that takes only 404 as already deleted.
VmCleanupOnly404(vmv, vm_name, answer) ==
    IF answer = 200
    THEN [done |-> TRUE, vms |-> [vmv EXCEPT ![vm_name] = NoVM], delay |-> 0]
    ELSE IF answer = 404
    THEN [done |-> TRUE, vms |-> vmv, delay |-> 0]
    ELSE [done |-> FALSE, vms |-> vmv, delay |-> 15]

\* The VM cleanup of cyberdesk_delete: the delete call answers (the VM is
\* deleted, or was gone already: 404/410) and the handler goes on, or it
\* fails otherwise and the handler raises TemporaryError with delay 15.
VmCleanup(vmv, vm_name, answer) ==
    IF answer = 200
    THEN [done |-> TRUE, vms |-> [vmv EXCEPT ![vm_name] = NoVM], delay |-> 0]
    ELSE IF answer \in {404, 410}
    THEN [done |-> TRUE, vms |-> vmv, delay |-> 0]
    ELSE [done |-> FALSE, vms |-> vmv, delay |-> 15]

\* A clone cleanup that leaves the clone object alone.
CloneCleanupSkipped(cl, clone_op_name, answer) == cl

\* The clone cleanup of cyberdesk_delete: the clone object is deleted when
\* the call succeeds; 404 and every other failure are only logged.
CloneCleanup(cl, clone_op_name, answer) ==
    IF answer = 200 THEN [cl EXCEPT ![clone_op_name] = NoClone] ELSE cl

\* The answers the one delete call of a run of cyberdesk_delete can get;
\* 0 stands for no call.
CleanupAnswers(st, vmv, cl) ==
    IF Get(st, "virtualMachineRef") # None
    THEN DeleteAnswers(vmv[Get(st, "virtualMachineRef")].exists)
    ELSE IF Get(st, "cloneOperationName") # None
    THEN DeleteAnswers(cl[Get(st, "cloneOperationName")].exists) \ {410}
    ELSE {0}

\* @kopf.on.delete cyberdesk_delete: delete the VM named in status (404/410
\* is fine, another failure is TemporaryError), or else the clone object
\* (best effort).  When the handler returns kopf removes its finalizer and
\* the resource is gone.
CyberdeskDelete(cd) ==
    /\ crState[cd] = "terminating"
    /\ finalizer[cd]
    /\ \E answer \in CleanupAnswers(status[cd], vms, clones) :
          LET callOK == answer \in {0, 200, 404, 410} IN
          /\ ~callOK => faults < MaxFaults
          /\ faults' = IF callOK THEN faults ELSE faults + 1
          /\ LET vm_name == Get(status[cd], "virtualMachineRef")
                 clone_op_name == Get(status[cd], "cloneOperationName")
                 rec == Overlay([NoRun EXCEPT !.h = "delete", !.cd = cd,
                                              !.pre = status[cd], !.at = now,
                                              !.apiOK = callOK],
                                [answer |-> answer, delay |-> 0, target |-> None])
             IN  IF vm_name # None
                 THEN LET cleanup == VmCleanup(vms, vm_name, answer) IN
                      IF cleanup.done
                      THEN /\ vms' = cleanup.vms
                           /\ clones' = clones
                           /\ last' = [rec EXCEPT !.outcome = "done", !.patched = vm_name,
                                                  !.target = vm_name]
                           /\ Released(cd)
                      ELSE /\ last' = [rec EXCEPT !.outcome = "retry", !.patched = vm_name,
                                                  !.target = vm_name,
                                                  !.delay = cleanup.delay]
                           /\ UNCHANGED <<crState, finalizer, timeoutMs, status, hstate,
                                          retry, vms, clones>>
                 ELSE IF clone_op_name # None
                 THEN /\ clones' = CloneCleanup(clones, clone_op_name, answer)
                      /\ vms' = vms
                      /\ last' = [rec EXCEPT !.outcome = "done", !.deleted = TRUE,
                                             !.target = clone_op_name]
                      /\ Released(cd)
                 ELSE /\ clones' = clones
                      /\ vms' = vms
                      /\ last' = [rec EXCEPT !.outcome = "done"]
                      /\ Released(cd)
    /\ gwLog' = NoCalls
    /\ UNCHANGED <<gatewayUrl, now>>
    /\ UNCHANGED <<syncVars, proxyVars, sdkVars, extVars>>

\* A test that lets the instant of expiry pass.
ExpiredStrictly(cur, t) == "expiryTime" \in DOMAIN cur /\ t > cur["expiryTime"]

\* cyberdesk_timeout_check's test: an expiryTime is there and
\* datetime.now(UTC) >= datetime.fromisoformat(expiry_str).
Expired(cur, t) == "expiryTime" \in DOMAIN cur /\ t >= cur["expiryTime"]

\* @kopf.on.timer cyberdesk_timeout_check, one run on Cyberdesk cd: nothing
\* without an expiryTime, a delete of the resource once it is expired; an
\* ApiException of the delete call is not caught.
CyberdeskTimeoutCheck(cd) ==
    /\ crState[cd] = "present"
    /\ finalizer[cd]
    /\ \E callOK \in BOOLEAN :
          LET expired == Expired(status[cd], now) IN
          /\ ~callOK => expired /\ faults < MaxFaults
          /\ faults' = IF callOK THEN faults ELSE faults + 1
          /\ last' = [NoRun EXCEPT !.h = "timer", !.cd = cd, !.pre = status[cd],
                                   !.at = now, !.deleted = expired, !.apiOK = callOK,
                                   !.outcome = IF callOK THEN "done" ELSE "error"]
          /\ IF expired /\ callOK
             THEN DeleteCyberdesk(cd)
             ELSE UNCHANGED <<crState, finalizer, timeoutMs, status, hstate, retry>>
    /\ gwLog' = NoCalls
    /\ UNCHANGED <<vms, clones, gatewayUrl, now>>
    /\ UNCHANGED <<syncVars, proxyVars, sdkVars, extVars>>

\* KubeVirt works on a VirtualMachineClone: its phase moves on, and with
\* Succeeded the target VM exists.
CloneProgress(c) ==
    /\ clones[c].exists
    /\ \E ph \in {"RestoreInProgress", "Succeeded", "Failed", "Unknown"} :
          /\ \/ clones[c].phase = None /\ ph = "RestoreInProgress"
             \/ clones[c].phase = "RestoreInProgress" /\ ph # "RestoreInProgress"
             \/ clones[c].phase = "Unknown" /\ ph = "RestoreInProgress"
          /\ ph = "Succeeded" => ~vms[clones[c].target].exists
          /\ clones' = [clones EXCEPT ![c].phase = ph]
          /\ vms' = IF ph = "Succeeded"
                    THEN [vms EXCEPT ![clones[c].target] =
                              [NoVM EXCEPT !.exists = TRUE, !.printable = "Stopped"]]
                    ELSE vms
    /\ last' = NoRun
    /\ gwLog' = NoCalls
    /\ UNCHANGED <<crState, finalizer, timeoutMs, status, hstate, retry, gatewayUrl,
                   now, faults>>
    /\ UNCHANGED <<syncVars, proxyVars, sdkVars, extVars>>

\* A VM a Cyberdesk refers to is deleted by someone else.
VmLost(n) ==
    /\ vms[n].exists
    /\ \E d \in Desks : Get(status[d], "virtualMachineRef") = n
    /\ vms' = [vms EXCEPT ![n] = NoVM]
    /\ last' = NoRun
    /\ gwLog' = NoCalls
    /\ UNCHANGED <<crState, finalizer, timeoutMs, status, hstate, retry, clones,
                   gatewayUrl, now, faults>>
    /\ UNCHANGED <<syncVars, proxyVars, sdkVars, extVars>>

\* Time passes, up to max.
Tick(max) ==
    /\ now < max
    /\ now' = now + 1
    /\ last' = NoRun
    /\ gwLog' = NoCalls
    /\ UNCHANGED <<crState, finalizer, timeoutMs, status, hstate, retry, vms, clones,
                   gatewayUrl, faults>>
    /\ UNCHANGED <<syncVars, proxyVars, sdkVars, extVars>>

----------------------------------------------------------------------------
(* Gateway: create_cyberdesk and stop_cyberdesk *)

\* POST /cyberdesk/{vm_id}: create the resource, 201; 409 when the API
\* server answers that it already exists, 500 for another ApiException.
GatewayCreate(vm_id) ==
    \E timeout_ms \in Timeouts, callOK \in BOOLEAN :
       LET entry(code) == [op |-> "create", code |-> code, at |-> now,
                           pending |-> crState[vm_id] = "terminating"]
       IN
       /\ ~callOK => faults < MaxFaults /\ timeout_ms = 1
       /\ faults' = IF callOK THEN faults ELSE faults + 1
       /\ IF ~callOK
          THEN /\ gwLog' = [gwLog EXCEPT ![vm_id] = Logged(@, entry(500))]
               /\ UNCHANGED <<crState, timeoutMs>>
          ELSE IF crState[vm_id] = "absent"
          THEN /\ crState' = [crState EXCEPT ![vm_id] = "present"]
               /\ timeoutMs' = [timeoutMs EXCEPT ![vm_id] = timeout_ms]
               /\ gwLog' = [gwLog EXCEPT ![vm_id] = Logged(@, entry(201))]
          ELSE /\ gwLog' = [gwLog EXCEPT ![vm_id] = Logged(@, entry(409))]
               /\ UNCHANGED <<crState, timeoutMs>>
       /\ last' = NoRun
       /\ UNCHANGED <<finalizer, status, hstate, retry, vms, clones, gatewayUrl, now>>
       /\ UNCHANGED <<syncVars, proxyVars, sdkVars, extVars>>

\* POST /cyberdesk/{vm_id}/stop: delete the resource, 200; 404 when the API
\* server answers that there is none, 500 for another ApiException.
GatewayStop(vm_id) ==
    \E callOK \in BOOLEAN :
       LET entry(code) == [op |-> "stop", code |-> code, at |-> now,
                           pending |-> crState[vm_id] = "terminating"]
       IN
       /\ ~callOK => faults < MaxFaults
       /\ faults' = IF callOK THEN faults ELSE faults + 1
       /\ IF ~callOK
          THEN /\ gwLog' = [gwLog EXCEPT ![vm_id] = Logged(@, entry(500))]
               /\ UNCHANGED <<crState, finalizer, timeoutMs, status, hstate, retry>>
          ELSE IF crState[vm_id] = "absent"
          THEN /\ gwLog' = [gwLog EXCEPT ![vm_id] = Logged(@, entry(404))]
               /\ UNCHANGED <<crState, finalizer, timeoutMs, status, hstate, retry>>
          ELSE /\ gwLog' = [gwLog EXCEPT ![vm_id] = Logged(@, entry(200))]
               /\ DeleteCyberdesk(vm_id)
       /\ last' = NoRun
       /\ UNCHANGED <<vms, clones, gatewayUrl, now>>
       /\ UNCHANGED <<syncVars, proxyVars, sdkVars, extVars>>

----------------------------------------------------------------------------
(* VMI status sync: vmi_phase_change, and the gateway's ready callback *)

\* class KubeVirtVMIPhase
KubeVirtVMIPhase == {"Pending", "Scheduling", "Scheduled", "Running",
                     "Succeeded", "Failed", "Unknown"}

\* A mapping that takes a Running VMI for a running desktop.
VmiPhaseToSupabaseStatusRunning(phase) ==
    CASE phase \in {"Pending", "Scheduling", "Scheduled"} -> "pending"
      [] phase = "Running" -> "running"
      [] phase = "Succeeded" -> "terminated"
      [] phase \in {"Failed", "Unknown"} -> "error"

\* VMI_PHASE_TO_SUPABASE_STATUS
VmiPhaseToSupabaseStatus(phase) ==
    CASE phase \in {"Pending", "Scheduling", "Scheduled", "Running"} -> "pending"
      [] phase = "Succeeded" -> "terminated"
      [] phase \in {"Failed", "Unknown"} -> "error"

\* get_instance_status: the row's status, None when there is no row or the
\* query failed.
GetInstanceStatus(dbv, instance_id, readOK) ==
    IF readOK /\ dbv[instance_id] # "norow" THEN dbv[instance_id] ELSE None

\* update_instance_status: the phase is mapped again (ERROR for a string that
\* is no KubeVirtVMIPhase) and written to the rows with that id; a failed
\* update is logged.
UpdateInstanceStatus(dbv, instance_id, vmi_phase, writeOK) ==
    LET target == IF vmi_phase \in KubeVirtVMIPhase
                  THEN VmiPhaseToSupabaseStatus(vmi_phase) ELSE "error"
    IN  IF writeOK /\ dbv[instance_id] # "norow"
        THEN [dbv EXCEPT ![instance_id] = target]
        ELSE dbv

NoSync == [h |-> "none", new |-> None, app |-> None, instance |-> None,
           read |-> "unread", desired |-> None, wrote |-> FALSE, readOK |-> TRUE,
           writeOK |-> TRUE, outcome |-> "none", code |-> 0, stream_url |-> None]

\* The phases a notification can carry: the enum's, one KubeVirt phase the
\* enum lacks, and none.
NotifiedPhases == KubeVirtVMIPhase \cup {"WaitingForSync", None}

\* @kopf.on.field vmi_phase_change, one notification: new is the VMI's new
\* status.phase, app and instance are its labels app and cyberdesk-instance.
VmiPhaseChange ==
    /\ UNCHANGED <<opVars, proxyVars, sdkVars, extVars>>
    /\ UNCHANGED stream
    /\ \E new \in NotifiedPhases, app \in {"cyberdesk", "other"},
       instance \in Desks \cup {None}, readOK \in BOOLEAN, writeOK \in BOOLEAN :
       LET rec == [NoSync EXCEPT !.h = "vmi", !.new = new, !.app = app,
                                 !.instance = instance]
       IN
       IF new = None \/ app # "cyberdesk" \/ instance = None
       THEN /\ readOK /\ writeOK
            /\ sync' = [rec EXCEPT !.outcome = "skipped"]
            /\ db' = db
       ELSE LET current_db == GetInstanceStatus(db, instance, readOK) IN
            IF new \notin KubeVirtVMIPhase
            THEN /\ writeOK
                 /\ sync' = [rec EXCEPT !.read = current_db, !.readOK = readOK,
                                        !.outcome = "raised"]
                 /\ db' = db
            ELSE LET desired == VmiPhaseToSupabaseStatus(new) IN
                 IF current_db # desired
                 THEN /\ sync' = [rec EXCEPT !.read = current_db, !.readOK = readOK,
                                             !.desired = desired, !.wrote = TRUE,
                                             !.writeOK = writeOK, !.outcome = "done"]
                      /\ db' = UpdateInstanceStatus(db, instance, new, writeOK)
                 ELSE /\ writeOK
                      /\ sync' = [rec EXCEPT !.read = current_db, !.readOK = readOK,
                                             !.desired = desired, !.outcome = "done"]
                      /\ db' = db

\* stream_url = f"http://{external_ip}:80/vnc/{vm_id}"
StreamUrl(external_ip, vm_id) == "http://" \o external_ip \o ":80/vnc/" \o vm_id

\* What get_gateway_external_ip returns: the address of the LoadBalancer
\* ingress, or None.
ExternalIps == {None, "203.0.113.7", "gateway.example.net"}

\* An update that takes every answer of the datastore for success.
UpdateSupabaseInstanceTrusting(dbv, urls, vm_id, stream_url, writeOK, reported) ==
    IF writeOK /\ dbv[vm_id] # "norow"
    THEN [ok |-> TRUE, db |-> [dbv EXCEPT ![vm_id] = "running"],
          stream |-> [urls EXCEPT ![vm_id] = stream_url]]
    ELSE [ok |-> writeOK, db |-> dbv, stream |-> urls]

\* update_supabase_instance: status running and the stream URL are written
\* to the rows with that id.  TRUE when the response lists an updated row;
\* FALSE when the update raised, matched no row, or took effect without the
\* response listing the row (reported = FALSE).
UpdateSupabaseInstance(dbv, urls, vm_id, stream_url, writeOK, reported) ==
    IF writeOK /\ dbv[vm_id] # "norow"
    THEN [ok |-> reported, db |-> [dbv EXCEPT ![vm_id] = "running"],
          stream |-> [urls EXCEPT ![vm_id] = stream_url]]
    ELSE [ok |-> FALSE, db |-> dbv, stream |-> urls]

\* POST /cyberdesk/{vm_id}/ready: 503 without an external IP, 200 with the
\* stream URL when the row was updated, else 500.
CyberdeskReady(vm_id) ==
    /\ UNCHANGED <<opVars, proxyVars, sdkVars, extVars>>
    /\ \E external_ip \in ExternalIps, writeOK \in BOOLEAN, reported \in BOOLEAN :
       LET rec == [NoSync EXCEPT !.h = "ready", !.instance = vm_id]
       IN  IF external_ip = None
           THEN /\ writeOK /\ reported
                /\ sync' = [rec EXCEPT !.code = 503, !.outcome = "raised"]
                /\ db' = db
                /\ stream' = stream
           ELSE LET stream_url == StreamUrl(external_ip, vm_id)
                    u == UpdateSupabaseInstance(db, stream, vm_id, stream_url,
                                                writeOK, reported)
                IN  /\ ~(writeOK /\ db[vm_id] # "norow") => reported
                    /\ sync' = [rec EXCEPT !.wrote = TRUE, !.writeOK = writeOK,
                                            !.code = IF u.ok THEN 200 ELSE 500,
                                            !.stream_url = IF u.ok THEN stream_url ELSE None,
                                            !.outcome = IF u.ok THEN "done" ELSE "raised"]
                    /\ db' = u.db
                    /\ stream' = u.stream

\* The application inserts the row of a new instance.
RowInserted(instance_id) ==
    /\ db[instance_id] = "norow"
    /\ db' = [db EXCEPT ![instance_id] = "pending"]
    /\ sync' = NoSync
    /\ stream' = stream
    /\ UNCHANGED <<opVars, proxyVars, sdkVars, extVars>>

----------------------------------------------------------------------------
(* Command / health proxy: _proxy_request_to_vm and its two callers *)

\* At most MaxPods pods carry one VM's domain label.
MaxPods == 2

\* The statuses the VM-side endpoint answers with.
VmAnswers == {200, 400, 404, 500, 503}

\* What becomes of the request to the VM: an answer with a status, no
\* connection, or no answer within the timeout.
VmOutcomes == [kind : {"answer"}, status : VmAnswers]
              \cup {[kind |-> "connect", status |-> 0], [kind |-> "timeout", status |-> 0]}

NoVmCall == [kind |-> "none", status |-> 0]

\* str(status_code)
Str(n) ==
    CASE n = 200 -> "200" [] n = 400 -> "400" [] n = 404 -> "404"
      [] n = 500 -> "500" [] n = 503 -> "503"

\* _proxy_request_to_vm.  In the cluster the request goes to the VM by httpx
\* and any status is returned.  Outside it the pod is looked up (the
\* HTTPException raised for no pod or several pods is caught by the lookup's
\* own "except Exception" and becomes a 500) and the request goes through
\* the API server's pod proxy with ApiClient.call_api, which raises
\* ApiException for a status outside 200..299.
ProxyRequestToVm(in_cluster, npods, listOK, vm) ==
    LET returned(c) == [raised |-> FALSE, code |-> c]
        raised(c)   == [raised |-> TRUE, code |-> c]
    IN  IF in_cluster
        THEN CASE vm.kind = "answer"  -> returned(vm.status)
               [] vm.kind = "timeout" -> raised(504)
               [] vm.kind = "connect" -> raised(503)
        ELSE IF ~listOK THEN raised(500)
        ELSE IF npods # 1 THEN raised(500)
        ELSE CASE vm.kind = "answer" ->
                    IF 200 <= vm.status /\ vm.status <= 299 THEN returned(vm.status)
                    ELSE IF vm.status = 404 THEN raised(502)
                    ELSE IF vm.status \in {503, 504} THEN raised(503)
                    ELSE raised(500)
               [] vm.kind = "connect" -> raised(503)
               [] vm.kind = "timeout" -> raised(500)

\* What execute_vm_command and vm_health_check make of the helper's result:
\* 200 for a 2xx status, 502 with X-VM-Status-Code for another status, and
\* the helper's HTTPException as it is.
ProxiedAnswer(r) ==
    IF r.raised THEN [code |-> r.code, header |-> None, vm_status_code |-> 0]
    ELSE IF 200 <= r.code /\ r.code < 300
    THEN [code |-> 200, header |-> None, vm_status_code |-> r.code]
    ELSE [code |-> 502, header |-> Str(r.code), vm_status_code |-> 0]

NoResp == [op |-> "none", vm_id |-> None, vm |-> NoVmCall, code |-> 0,
           header |-> None, vm_status_code |-> 0, listed |-> TRUE]

\* One proxied call for VM vm_id; vm is what becomes of the request to the
\* VM when it is made (no pod: no answer).
Proxied(op, vm_id) ==
    \E listOK \in BOOLEAN, vm \in VmOutcomes :
       LET reached == inCluster \/ (listOK /\ pods[vm_id] = 1)
           r == ProxyRequestToVm(inCluster, pods[vm_id], listOK, vm)
           a == ProxiedAnswer(r)
       IN  /\ inCluster => listOK
           /\ ~reached => vm = [kind |-> "connect", status |-> 0]
           /\ pods[vm_id] = 0 \/ ~podRunning[vm_id] => vm.kind # "answer"
           /\ resp' = [op |-> op, vm_id |-> vm_id,
                       vm |-> IF reached THEN vm ELSE NoVmCall,
                       code |-> a.code, header |-> a.header,
                       vm_status_code |-> a.vm_status_code, listed |-> listOK]
           /\ UNCHANGED <<inCluster, pods, podRunning>>
           /\ UNCHANGED <<opVars, syncVars, sdkVars, extVars>>

\* POST /cyberdesk/{vm_id}/execute-command
ExecuteVmCommand(vm_id) == Proxied("execute", vm_id)

\* GET /vm/healthcheck/{vmid}
VmHealthCheck(vmid) == Proxied("health", vmid)

\* A virt-launcher pod of the VM comes or goes, or the one pod there is
\* enters or leaves phase Running.
PodsChange(vm_id) ==
    /\ \E n \in 0..MaxPods, running \in BOOLEAN :
          /\ n # pods[vm_id] \/ running # podRunning[vm_id]
          /\ n # 1 => running
          /\ pods' = [pods EXCEPT ![vm_id] = n]
          /\ podRunning' = [podRunning EXCEPT ![vm_id] = running]
    /\ resp' = NoResp
    /\ UNCHANGED inCluster
    /\ UNCHANGED <<opVars, syncVars, sdkVars, extVars>>

----------------------------------------------------------------------------
(* SDK: PostV1DesktopIdComputerActionWaitAction *)

\* The members of PostV1DesktopIdComputerActionWaitActionType, by value.
WaitActionTypes == [wait |-> "WAIT"]

\* PostV1DesktopIdComputerActionWaitActionType(value): the member with that
\* value, or ValueError.
WaitActionTypeOf(value) == IF value \in DOMAIN WaitActionTypes THEN WaitActionTypes[value] ELSE None

\* member.value
WaitActionTypeValue(member) == CHOOSE v \in DOMAIN WaitActionTypes : WaitActionTypes[v] = member

\* dict without key k (what d.pop(k) leaves)
Without(d, k) == [x \in DOMAIN d \ {k} |-> d[x]]

NoObj == [type_ |-> None, ms |-> 0, additional_properties |-> EmptyDict]

\* A from_dict that pops from the caller's dict.
FromDictInPlace(src) ==
    IF "type" \notin DOMAIN src THEN [raised |-> TRUE, obj |-> NoObj, src_dict |-> src]
    ELSE IF WaitActionTypeOf(src["type"]) = None
    THEN [raised |-> TRUE, obj |-> NoObj, src_dict |-> Without(src, "type")]
    ELSE IF "ms" \notin DOMAIN src
    THEN [raised |-> TRUE, obj |-> NoObj, src_dict |-> Without(src, "type")]
    ELSE LET d == Without(Without(src, "type"), "ms") IN
         [raised |-> FALSE,
          obj |-> [type_ |-> WaitActionTypeOf(src["type"]), ms |-> src["ms"],
                   additional_properties |-> d],
          src_dict |-> d]

\* from_dict: a copy of src_dict loses "type" and "ms", the rest becomes
\* additional_properties; KeyError or ValueError for a missing key or a type
\* that is no member.
FromDict(src) ==
    IF "type" \notin DOMAIN src THEN [raised |-> TRUE, obj |-> NoObj, src_dict |-> src]
    ELSE IF WaitActionTypeOf(src["type"]) = None
    THEN [raised |-> TRUE, obj |-> NoObj, src_dict |-> src]
    ELSE IF "ms" \notin DOMAIN src
    THEN [raised |-> TRUE, obj |-> NoObj, src_dict |-> src]
    ELSE LET d == Without(Without(src, "type"), "ms") IN
         [raised |-> FALSE,
          obj |-> [type_ |-> WaitActionTypeOf(src["type"]), ms |-> src["ms"],
                   additional_properties |-> d],
          src_dict |-> src]

\* to_dict: additional_properties overlaid with type and ms.
ToDict(o) ==
    Overlay(o.additional_properties, [type |-> WaitActionTypeValue(o.type_), ms |-> o.ms])

\* __getitem__: additional_properties[key] as a one-key dict, empty for KeyError.
GetItem(o, key) ==
    [k \in {key} \cap DOMAIN o.additional_properties |-> o.additional_properties[k]]

\* The wire objects handed to from_dict: a type, ms or none, and extra keys.
WireTypes == {"wait", "click"}
WireBases ==
    {[type |-> t, ms |-> m] : t \in WireTypes, m \in {0, 1000}}
    \cup {[type |-> t] : t \in WireTypes}
WireNotes == {EmptyDict} \cup {[note |-> v] : v \in {"a", "b"}}
WireCounts == {EmptyDict} \cup {[count |-> v] : v \in {1, 2}}
WireDicts == {Overlay(Overlay(b, n), c) : b \in WireBases, n \in WireNotes, c \in WireCounts}
ItemKeys == {"note", "count", "type"}

\* A wire object arrives.
SdkReceive ==
    /\ \E d \in WireDicts : wire' = d /\ src_dict' = d
    /\ obj' = NoObj /\ back' = EmptyDict /\ item' = EmptyDict
    /\ sdkPc' = "received"
    /\ UNCHANGED <<opVars, syncVars, proxyVars, extVars>>

\* PostV1DesktopIdComputerActionWaitAction.from_dict(src_dict)
SdkFromDict ==
    /\ sdkPc = "received"
    /\ LET r == FromDict(src_dict) IN
       /\ obj' = r.obj
       /\ src_dict' = r.src_dict
       /\ sdkPc' = IF r.raised THEN "raised" ELSE "parsed"
    /\ UNCHANGED <<wire, back, item>>
    /\ UNCHANGED <<opVars, syncVars, proxyVars, extVars>>

\* obj[key]
SdkGetItem ==
    /\ sdkPc \in {"parsed", "serialized"}
    /\ \E key \in ItemKeys : item' = GetItem(obj, key)
    /\ UNCHANGED <<wire, src_dict, obj, back, sdkPc>>
    /\ UNCHANGED <<opVars, syncVars, proxyVars, extVars>>

\* obj.to_dict()
SdkToDict ==
    /\ sdkPc = "parsed"
    /\ back' = ToDict(obj)
    /\ sdkPc' = "serialized"
    /\ UNCHANGED <<wire, src_dict, obj, item>>
    /\ UNCHANGED <<opVars, syncVars, proxyVars, extVars>>

----------------------------------------------------------------------------
(* VNC proxy: proxy_vnc *)

\* status.WS_1011_INTERNAL_ERROR
WS_1011_INTERNAL_ERROR == 1011

\* The phases a VMI can be in, and None for an id without a VMI.
VmiPhases == KubeVirtVMIPhase \cup {None}

\* How the configuration of a session can end: in the cluster the token read
\* raises RuntimeError and _build_ssl_ctx may raise anything else; outside it
\* _get_local_vnc_config turns every exception into RuntimeError.
VncConfigOutcomes(in_cluster) ==
    IF in_cluster THEN {"ok", "runtime", "other"} ELSE {"ok", "runtime"}

\* What websockets.connect to the VMI's vnc sub-resource can end in.  KubeVirt
\* serves the sub-resource of a Running VMI only; for any other phase, and
\* for no VMI, the handshake is answered with an HTTP error, which the
\* client raises as InvalidStatusCode or as another exception.
KubeVirtVncAnswers(phase) ==
    IF phase = "Running"
    THEN {"established", "tls", "status", "closed", "refused", "oserror", "other"}
    ELSE {"status", "other"}

\* The reason each except clause of proxy_vnc closes the browser socket with.
VncCloseReason(outcome) ==
    CASE outcome = "tls"     -> "TLS verification failed"
      [] outcome = "status"  -> "KubeVirt VNC connection failed"
      [] outcome = "closed"  -> "VNC Connection closed"
      [] outcome = "refused" -> "Connection refused by K8s API server."
      [] outcome = "oserror" -> "Network error"
      [] outcome = "other"   -> "Unexpected proxy failure"

\* The three tasks of a session: the two _relay tasks and the _ping task.
VncTasks == {"browser_to_k8s", "k8s_to_browser", "ping"}

NoVnc == [pc |-> "idle", vm_id |-> None, target |-> None, phase |-> "undialed",
          code |-> 0, reason |-> None, tasks |-> 0, established |-> FALSE,
          backend |-> FALSE, task |-> [t \in VncTasks |-> "none"]]

\* The VMI whose vnc sub-resource k8s_url names:
\* ".../virtualmachineinstances/{vm_id}/vnc", in the cluster and outside it.
VncTarget(vm_id) == vm_id

\* A dial that creates the relay tasks before the connection is there.
VncDialedTasksFirst(session, phase, outcome) ==
    IF outcome = "established"
    THEN [session EXCEPT !.pc = "relaying", !.phase = phase, !.tasks = 3,
                         !.established = TRUE, !.backend = TRUE,
                         !.task = [t \in VncTasks |-> "running"]]
    ELSE [session EXCEPT !.pc = "closed", !.phase = phase, !.tasks = 3,
                         !.task = [t \in VncTasks |-> "running"],
                         !.code = WS_1011_INTERNAL_ERROR,
                         !.reason = VncCloseReason(outcome)]

\* The dial of proxy_vnc: inside "async with websockets.connect(...)" the two
\* relay tasks and the ping task are created; an exception of the connect
\* closes the browser socket with 1011 and a reason.
VncDialed(session, phase, outcome) ==
    IF outcome = "established"
    THEN [session EXCEPT !.pc = "relaying", !.phase = phase, !.tasks = 3,
                         !.established = TRUE, !.backend = TRUE,
                         !.task = [t \in VncTasks |-> "running"]]
    ELSE [session EXCEPT !.pc = "closed", !.phase = phase,
                         !.code = WS_1011_INTERNAL_ERROR,
                         !.reason = VncCloseReason(outcome)]

\* A browser connects to /vnc/ws/{vm_id}: websocket.accept().
VncAccept(vm_id) ==
    /\ vnc.pc \in {"idle", "closed", "finished"}
    /\ vnc' = [NoVnc EXCEPT !.pc = "accepted", !.vm_id = vm_id]
    /\ UNCHANGED vmi
    /\ UNCHANGED <<opVars, syncVars, proxyVars, sdkVars, bootVars, raceVars>>

\* The connection parameters are determined.
VncConfigure ==
    /\ vnc.pc = "accepted"
    /\ \E outcome \in VncConfigOutcomes(inCluster) :
          vnc' = CASE outcome = "ok" -> [vnc EXCEPT !.pc = "configured",
                                                    !.target = VncTarget(vnc.vm_id)]
                   [] outcome = "runtime" ->
                        [vnc EXCEPT !.pc = "closed", !.code = WS_1011_INTERNAL_ERROR,
                                    !.reason = "Proxy config error"]
                   [] outcome = "other" ->
                        [vnc EXCEPT !.pc = "closed", !.code = WS_1011_INTERNAL_ERROR,
                                    !.reason = "Unexpected proxy config error"]
    /\ UNCHANGED vmi
    /\ UNCHANGED <<opVars, syncVars, proxyVars, sdkVars, bootVars, raceVars>>

\* websockets.connect(k8s_url, ...) and what follows it at once.
VncDial ==
    /\ vnc.pc = "configured"
    /\ \E outcome \in KubeVirtVncAnswers(vmi[vnc.target]) :
          vnc' = VncDialed(vnc, vmi[vnc.target], outcome)
    /\ UNCHANGED vmi
    /\ UNCHANGED <<opVars, syncVars, proxyVars, sdkVars, bootVars, raceVars>>

\* One task of the session ends while proxy_vnc waits: a _relay or _ping
\* returns on WebSocketDisconnect or ConnectionClosed (a side closed), or
\* any other exception leaves it.
VncTaskEnds(t) ==
    /\ vnc.pc = "relaying"
    /\ vnc.task[t] = "running"
    /\ \E how \in {"returned", "raised"} :
          vnc' = [vnc EXCEPT !.task[t] = how, !.tasks = @ - 1]
    /\ UNCHANGED vmi
    /\ UNCHANGED <<opVars, syncVars, proxyVars, sdkVars, bootVars, raceVars>>

\* The rest of proxy_vnc with the pending tasks left as they are.
VncAfterWaitNoCancel(session) ==
    [session EXCEPT !.pc = "finished", !.backend = FALSE]

\* The rest of proxy_vnc once asyncio.wait has returned: the result of every
\* done task is looked at (whatever it raised is caught), every pending
\* task is cancelled, and leaving "async with" closes the backend
\* connection.
VncAfterWait(session) ==
    [session EXCEPT !.pc = "finished", !.tasks = 0, !.backend = FALSE,
                    !.task = [t \in VncTasks |->
                                 IF @[t] = "running" THEN "cancelled" ELSE @[t]]]

\* asyncio.wait(tasks, return_when=FIRST_COMPLETED) returns, at least one
\* task having ended, and proxy_vnc runs to its end.
VncRelayEnd ==
    /\ vnc.pc = "relaying"
    /\ \E t \in VncTasks : vnc.task[t] \in {"returned", "raised"}
    /\ vnc' = VncAfterWait(vnc)
    /\ UNCHANGED vmi
    /\ UNCHANGED <<opVars, syncVars, proxyVars, sdkVars, bootVars, raceVars>>

\* KubeVirt moves the VMI of vm_id to another phase, creates or removes it.
VmiPhaseMoves(vm_id) ==
    /\ \E ph \in VmiPhases : ph # vmi[vm_id] /\ vmi' = [vmi EXCEPT ![vm_id] = ph]
    /\ UNCHANGED vnc
    /\ UNCHANGED <<opVars, syncVars, proxyVars, sdkVars, bootVars, raceVars>>

\* KubeVirt starts the VMI of a VM that is set to run.
VmiStarts(n) ==
    /\ vms[n].exists
    /\ vms[n].runAlways \/ vms[n].printable = "Running"
    /\ vmi[n] = None
    /\ vmi' = [vmi EXCEPT ![n] = "Running"]
    /\ UNCHANGED vnc
    /\ UNCHANGED <<opVars, syncVars, proxyVars, sdkVars, bootVars, raceVars>>

----------------------------------------------------------------------------
(* CRD bootstrap: crd_bootstrap *)

\* A chain of crd_bootstrap attempts is followed up to retry = MaxBootRetry.
MaxBootRetry == 2

\* Names of the StartCyberdeskOperator resources.
Starters == {"start-1", "start-2"}

\* What create_custom_resource_definition is answered with: 201 when the CRD
\* was not there, 409 when it was, and at any time 429, 403 or 500.
CrdAnswers(exists) == (IF exists THEN {409} ELSE {201}) \cup {429, 403, 500}

\* A handler for which an existing CRD is a failure.
CrdBootstrapStrict(answer) ==
    CASE answer = 201 -> [outcome |-> "done", delay |-> 0]
      [] answer = 429 -> [outcome |-> "retry", delay |-> 10]
      [] OTHER -> [outcome |-> "failed", delay |-> 0]

\* crd_bootstrap on the answer of the create call: it returns when the call
\* succeeded or answered 409, raises TemporaryError(delay=10) on 429 and
\* PermanentError on any other ApiException.
CrdBootstrapOutcome(answer) ==
    CASE answer \in {201, 409} -> [outcome |-> "done", delay |-> 0]
      [] answer = 429 -> [outcome |-> "retry", delay |-> 10]
      [] OTHER -> [outcome |-> "failed", delay |-> 0]

NoBoot == [hstate |-> "none", retry |-> 0]

NoBootRun == [name |-> None, answer |-> 0, outcome |-> "none", delay |-> 0,
              existed |-> FALSE]

\* A StartCyberdeskOperator resource is created: kopf schedules crd_bootstrap.
StarterCreated(name) ==
    /\ boot[name].hstate = "none"
    /\ boot' = [boot EXCEPT ![name] = [hstate |-> "todo", retry |-> 0]]
    /\ bootLast' = NoBootRun
    /\ UNCHANGED crd
    /\ UNCHANGED <<opVars, syncVars, proxyVars, sdkVars, vncVars, raceVars>>

\* @kopf.on.create crd_bootstrap: one attempt for the resource name.
CrdBootstrap(name) ==
    /\ boot[name].hstate = "todo"
    /\ boot[name].retry <= MaxBootRetry
    /\ \E answer \in CrdAnswers(crd) :
          LET r == CrdBootstrapOutcome(answer) IN
          /\ crd' = (crd \/ answer = 201)
          /\ boot' = [boot EXCEPT ![name] =
                        [hstate |-> HandlerAfter(r.outcome),
                         retry |-> IF r.outcome = "retry" THEN @.retry + 1 ELSE @.retry]]
          /\ bootLast' = [name |-> name, answer |-> answer, outcome |-> r.outcome,
                          delay |-> r.delay, existed |-> crd]
    /\ UNCHANGED <<opVars, syncVars, proxyVars, sdkVars, vncVars, raceVars>>

\* The StartCyberdeskOperator resource is deleted (the tests' cleanup); the
\* CRD stays.
StarterDeleted(name) ==
    /\ boot[name].hstate # "none"
    /\ boot' = [boot EXCEPT ![name] = NoBoot]
    /\ bootLast' = NoBootRun
    /\ UNCHANGED crd
    /\ UNCHANGED <<opVars, syncVars, proxyVars, sdkVars, vncVars, raceVars>>

----------------------------------------------------------------------------
(* cyberdesk_create, call by call: runs for distinct Cyberdesks interleave *)

NothingSeen == [n \in VMNames |-> NoVM]

RECURSIVE PluckFirstListed(_, _, _)
\* The loop of get_free_vm_from_pool over the items of its list call: the
\* in-use label and printableStatus are read from the listed item, the
\* pluck patch goes to the VM as it is now (a merge patch with no
\* resourceVersion: it is applied whatever the VM's labels have become),
\* and fails only for a VM that is gone.
PluckFirstListed(items, listed, vmv) ==
    IF items = <<>> THEN [name |-> None, vms |-> vmv]
    ELSE LET vm_name == Head(items) IN
         IF listed[vm_name].inUse THEN PluckFirstListed(Tail(items), listed, vmv)
         ELSE IF listed[vm_name].printable # "Running"
              THEN PluckFirstListed(Tail(items), listed, vmv)
         ELSE IF ~vmv[vm_name].exists THEN PluckFirstListed(Tail(items), listed, vmv)
         ELSE [name |-> vm_name, vms |-> PluckPatch(vmv, vm_name)]

\* cyberdesk_create on a fresh Cyberdesk up to the answer of the list call
\* in get_free_vm_from_pool.
CreateListsPool(cd) ==
    /\ crState[cd] = "present"
    /\ finalizer[cd]
    /\ hstate[cd] = "todo"
    /\ racePc[cd] = "idle"
    /\ ~IsProvisioned(status[cd])
    /\ Get(status[cd], "cloneOperationName") = None
    /\ racePc' = [racePc EXCEPT ![cd] = "listed"]
    /\ raceSeen' = [raceSeen EXCEPT ![cd] = vms]
    /\ last' = NoRun
    /\ gwLog' = NoCalls
    /\ UNCHANGED <<crState, finalizer, timeoutMs, status, hstate, retry, vms, clones,
                   gatewayUrl, now, faults>>
    /\ UNCHANGED <<syncVars, proxyVars, sdkVars, vncVars, bootVars, pluck, cached>>

\* The rest of that run: the loop over the listed items, and with a plucked
\* VM its identity patch, the gateway notification and the status.
CreateAfterList(cd) ==
    /\ racePc[cd] = "listed"
    /\ LET r    == PluckFirstListed(ListWarm(raceSeen[cd]), raceSeen[cd], vms)
           pool == [raised |-> FALSE, name |-> r.name, vms |-> r.vms]
           res  == CreateFreshAfterPool(cd, vms, clones, now, SpecTimeoutMs(timeoutMs[cd]),
                                        gatewayUrl, AllOK, pool)
       IN  /\ status' = [status EXCEPT ![cd] = MergePatch(@, res.patch)]
           /\ vms' = res.vms
           /\ clones' = res.clones
           /\ hstate' = [hstate EXCEPT ![cd] = HandlerAfter(res.outcome)]
           /\ retry' = [retry EXCEPT ![cd] = IF res.outcome = "retry" THEN @ + 1 ELSE @]
           /\ last' = [h |-> "create", cd |-> cd, retry |-> retry[cd],
                       outcome |-> res.outcome, pre |-> status[cd],
                       listed |-> res.listed, plucked |-> res.plucked,
                       created |-> res.created, deleted |-> res.deleted,
                       seen |-> res.seen, patched |-> res.patched,
                       notified |-> res.notified, apiOK |-> res.apiOK, at |-> now]
    /\ racePc' = [racePc EXCEPT ![cd] = "idle"]
    /\ raceSeen' = [raceSeen EXCEPT ![cd] = NothingSeen]
    /\ gwLog' = NoCalls
    /\ UNCHANGED <<crState, finalizer, timeoutMs, gatewayUrl, now, faults>>
    /\ UNCHANGED <<syncVars, proxyVars, sdkVars, vncVars, bootVars, pluck, cached>>

----------------------------------------------------------------------------
(* get_free_vm_from_pool on its own *)

NoPluck == [called |-> FALSE, listOK |-> TRUE, failing |-> {}, raised |-> FALSE,
            name |-> None, before |-> NothingSeen]

\* What a VM of the pool can be when the search meets it: absent, ready and
\* Running, ready and not Running, ready and already marked in-use.
PoolVmStates ==
    {NoVM, WarmVM("Running"), WarmVM("Stopped"), [WarmVM("Running") EXCEPT !.inUse = TRUE]}

\* One call of get_free_vm_from_pool: the list call answers or not, and the
\* pluck patches of the VMs in failing answer with an ApiException.
GetFreeVmFromPoolCall ==
    /\ \E listOK \in BOOLEAN, failing \in SUBSET WarmSet :
          LET r == GetFreeVmFromPool(vms, listOK, failing)
          IN  /\ vms' = r.vms
              /\ pluck' = [called |-> TRUE, listOK |-> listOK, failing |-> failing,
                           raised |-> r.raised, name |-> r.name, before |-> vms]
    /\ last' = NoRun
    /\ gwLog' = NoCalls
    /\ UNCHANGED <<crState, finalizer, timeoutMs, status, hstate, retry, clones,
                   gatewayUrl, now, faults>>
    /\ UNCHANGED <<syncVars, proxyVars, sdkVars, vncVars, bootVars, racePc, raceSeen, cached>>

\* A warm VM that nobody has claimed starts or stops (printableStatus).
WarmVmMoves(n) ==
    /\ vms[n].exists /\ vms[n].warm = "ready" /\ ~vms[n].inUse
    /\ vms' = [vms EXCEPT ![n].printable = IF @ = "Running" THEN "Stopped" ELSE "Running"]
    /\ pluck' = NoPluck
    /\ last' = NoRun
    /\ gwLog' = NoCalls
    /\ UNCHANGED <<crState, finalizer, timeoutMs, status, hstate, retry, clones,
                   gatewayUrl, now, faults>>
    /\ UNCHANGED <<syncVars, proxyVars, sdkVars, vncVars, bootVars, racePc, raceSeen, cached>>

----------------------------------------------------------------------------
(* cyberdesk_timeout_check on the body kopf hands it *)

NoBody == [held |-> FALSE, status |-> EmptyDict]

\* The answers of the timer's delete of the Cyberdesk: 200 while the
\* resource is there (terminating included), 404 once it is gone, or
\* another failure.
TimerDeleteAnswers(state) == IF state = "absent" THEN {404, 500} ELSE {200, 500}

\* How a run of cyberdesk_timeout_check ends after its delete call was
\* answered: the call is not inside any try, so every ApiException leaves
\* the handler.
TimeoutCheckEnds(answer) == IF answer = 200 THEN "done" ELSE "error"

\* kopf sees the resource and keeps its body for the timer.
KopfHoldsBody(cd) ==
    /\ crState[cd] = "present"
    /\ finalizer[cd]
    /\ cached' = [cached EXCEPT ![cd] = [held |-> TRUE, status |-> status[cd]]]
    /\ last' = NoRun
    /\ gwLog' = NoCalls
    /\ UNCHANGED <<crState, finalizer, timeoutMs, status, hstate, retry, vms, clones,
                   gatewayUrl, now, faults>>
    /\ UNCHANGED <<syncVars, proxyVars, sdkVars, vncVars, bootVars, racePc, raceSeen, pluck>>

\* @kopf.on.timer cyberdesk_timeout_check run on the body kopf holds: the
\* expiry is read from that body, the delete goes to the resource as it is
\* when the call arrives.
TimeoutCheckOnBody(cd) ==
    /\ cached[cd].held
    /\ LET expired == Expired(cached[cd].status, now)
           rec == Overlay([NoRun EXCEPT !.h = "timer", !.cd = cd,
                                        !.pre = cached[cd].status, !.at = now,
                                        !.deleted = expired],
                          [answer |-> 0])
       IN  IF ~expired
           THEN /\ last' = [rec EXCEPT !.outcome = "done"]
                /\ UNCHANGED <<crState, finalizer, timeoutMs, status, hstate, retry, faults>>
           ELSE \E answer \in TimerDeleteAnswers(crState[cd]) :
                   /\ answer = 500 => faults < MaxFaults
                   /\ faults' = IF answer = 500 THEN faults + 1 ELSE faults
                   /\ last' = [rec EXCEPT !.answer = answer,
                                          !.apiOK = (answer = 200),
                                          !.outcome = TimeoutCheckEnds(answer)]
                   /\ IF answer = 200
                      THEN DeleteCyberdesk(cd)
                      ELSE UNCHANGED <<crState, finalizer, timeoutMs, status, hstate, retry>>
    /\ cached' = [cached EXCEPT ![cd] = NoBody]
    /\ gwLog' = NoCalls
    /\ UNCHANGED <<vms, clones, gatewayUrl, now>>
    /\ UNCHANGED <<syncVars, proxyVars, sdkVars, vncVars, bootVars, racePc, raceSeen, pluck>>

----------------------------------------------------------------------------
(* Specifications *)

\* The datastore, the proxy and the SDK before anything has run.
IdleSync ==
    /\ db = [d \in Desks |-> "norow"]
    /\ stream = [d \in Desks |-> None]
    /\ sync = NoSync
IdleProxy ==
    /\ inCluster = TRUE /\ pods = [d \in Desks |-> 0]
    /\ podRunning = [d \in Desks |-> TRUE] /\ resp = NoResp
IdleSdk ==
    /\ wire = EmptyDict /\ src_dict = EmptyDict /\ obj = NoObj
    /\ back = EmptyDict /\ item = EmptyDict /\ sdkPc = "idle"
IdleVnc == vmi = [n \in VMNames |-> None] /\ vnc = NoVnc
IdleBoot == crd = FALSE /\ boot = [n \in Starters |-> NoBoot] /\ bootLast = NoBootRun
IdleRace ==
    /\ racePc = [d \in Desks |-> "idle"]
    /\ raceSeen = [d \in Desks |-> NothingSeen]
    /\ pluck = NoPluck
    /\ cached = [d \in Desks |-> NoBody]
IdleExt == IdleVnc /\ IdleBoot /\ IdleRace

Init == InitOperator /\ IdleSync /\ IdleProxy /\ IdleSdk /\ IdleExt

\* Provisioning: a Cyberdesk is created once through the gateway, the
\* operator provisions it, and the handler may be delivered again.
NextProvision(D, cap) ==
    \/ \E cd \in D : crState[cd] = "absent" /\ GatewayCreate(cd)
    \/ \E cd \in D : OperatorObserve(cd)
    \/ \E cd \in D : retry[cd] <= cap /\ CyberdeskCreate(cd)
    \/ \E cd \in D : Redeliver(cd)
    \/ \E c \in CloneNames : CloneProgress(c)
    \/ \E n \in VMNames : VmLost(n)
    \/ Tick(ProvMaxTime)

Next == NextProvision({"desk-1"}, ShortRetry)

Spec == Init /\ [][Next]_vars

\* Waiting for a clone: no warm VM is Running, so the operator falls back to
\* cloning, and the chain is followed past max_clone_wait_retries.
InitWait ==
    /\ Init
    /\ gatewayUrl
    /\ \A n \in WarmSet : vms[n].printable = "Stopped"

NextWait ==
    \/ \E cd \in {"desk-1"} : crState[cd] = "absent" /\ GatewayCreate(cd)
    \/ \E cd \in {"desk-1"} : OperatorObserve(cd)
    \/ \E cd \in {"desk-1"} : retry[cd] <= MaxRetry /\ CyberdeskCreate(cd)
    \/ \E cd \in {"desk-1"} : Redeliver(cd)
    \/ \E c \in CloneNames : CloneProgress(c)

SpecWait == InitWait /\ [][NextWait]_vars

\* The life of a Cyberdesk as kopf runs the operator: create and stop through
\* the gateway, provisioning, the expiry timer and the deletion handler.
NextLife(D) ==
    \/ \E cd \in D : GatewayCreate(cd)
    \/ \E cd \in D : GatewayStop(cd)
    \/ \E cd \in D : OperatorObserve(cd)
    \/ \E cd \in D : retry[cd] <= ShortRetry /\ CyberdeskCreate(cd)
    \/ \E cd \in D : CyberdeskDelete(cd)
    \/ \E cd \in D : CyberdeskTimeoutCheck(cd)
    \/ Tick(MaxTime)

SpecLife == Init /\ [][NextLife({"desk-1"})]_vars

\* The same, with kopf running the deletion handler of a terminating
\* resource until it returns (a TemporaryError is retried after its delay).
SpecLifeFair == SpecLife /\ WF_vars(CyberdeskDelete("desk-1"))

\* The operator with nothing to do: no Cyberdesk, the gateway URL set.
IdleOperator ==
    /\ InitOperator
    /\ gatewayUrl
    /\ \A n \in WarmSet : vms[n].printable = "Running"

\* The datastore handlers against the rows of the instances.
InitSync == IdleOperator /\ IdleSync /\ IdleProxy /\ IdleSdk /\ IdleExt

NextSync ==
    \/ VmiPhaseChange
    \/ \E vm_id \in Desks : CyberdeskReady(vm_id)
    \/ \E instance_id \in Desks : RowInserted(instance_id)

SpecSync == InitSync /\ [][NextSync]_vars

\* The gateway's proxied calls, in the cluster or outside it.
InitProxy ==
    /\ IdleOperator /\ IdleSync /\ IdleSdk /\ IdleExt
    /\ inCluster \in BOOLEAN /\ pods = [d \in Desks |-> 0]
    /\ podRunning = [d \in Desks |-> TRUE] /\ resp = NoResp

NextProxy ==
    \/ \E vm_id \in Desks : ExecuteVmCommand(vm_id)
    \/ \E vmid \in Desks : VmHealthCheck(vmid)
    \/ \E vm_id \in Desks : PodsChange(vm_id)

SpecProxy == InitProxy /\ [][NextProxy]_vars

\* The SDK model on the wire objects.
InitSdk == IdleOperator /\ IdleSync /\ IdleProxy /\ IdleSdk /\ IdleExt

NextSdk ==
    \/ SdkReceive
    \/ SdkFromDict
    \/ SdkGetItem
    \/ SdkToDict

SpecSdk == InitSdk /\ [][NextSdk]_vars

\* The VNC proxy serving one browser session at a time, in the cluster or
\* outside it, while the VMIs change phase.
InitVnc ==
    /\ IdleOperator /\ IdleSync /\ IdleSdk /\ IdleExt
    /\ inCluster \in BOOLEAN /\ pods = [d \in Desks |-> 0]
    /\ podRunning = [d \in Desks |-> TRUE] /\ resp = NoResp

NextVnc ==
    \/ \E vm_id \in Desks : VncAccept(vm_id)
    \/ VncConfigure
    \/ VncDial
    \/ \E t \in VncTasks : VncTaskEnds(t)
    \/ VncRelayEnd
    \/ \E vm_id \in Desks : VmiPhaseMoves(vm_id)

SpecVnc == InitVnc /\ [][NextVnc]_vars

\* Browser sessions on the Cyberdesks the operator provisions, by pluck or
\* by clone, every API call of the operator answering.
InitVncTarget ==
    /\ InitOperator /\ gatewayUrl
    /\ IdleSync /\ IdleProxy /\ IdleSdk /\ IdleBoot /\ IdleRace
    /\ vmi = [n \in VMNames |-> None] /\ vnc = NoVnc

NextVncTarget ==
    \/ crState["desk-1"] = "absent" /\ GatewayCreate("desk-1") /\ faults' = faults
    \/ OperatorObserve("desk-1")
    \/ retry["desk-1"] <= ShortRetry /\ CyberdeskCreate("desk-1") /\ faults' = faults
    \/ Redeliver("desk-1")
    \/ \E c \in CloneNames : CloneProgress(c)
    \/ \E n \in VMNames : VmiStarts(n)
    \/ VncAccept("desk-1")
    \/ VncConfigure
    \/ VncDial
    \/ \E t \in VncTasks : VncTaskEnds(t)
    \/ VncRelayEnd

SpecVncTarget == InitVncTarget /\ [][NextVncTarget]_vars

InitBoot ==
    /\ IdleOperator /\ IdleSync /\ IdleProxy /\ IdleSdk /\ IdleVnc /\ IdleRace
    /\ crd \in BOOLEAN /\ boot = [n \in Starters |-> NoBoot] /\ bootLast = NoBootRun

NextBoot ==
    \/ \E name \in Starters : StarterCreated(name)
    \/ \E name \in Starters : CrdBootstrap(name)
    \/ \E name \in Starters : StarterDeleted(name)

SpecBoot == InitBoot /\ [][NextBoot]_vars

\* Waiting for a clone as kopf schedules the handler: it is run once the
\* resource is seen and run again after every TemporaryError.  After a
\* return or a PermanentError kopf does not run it again by itself (nothing
\* obliges Redeliver to happen), and the clone object moves as KubeVirt
\* moves it, or not at all.
SpecWaitFair ==
    /\ SpecWait
    /\ WF_vars(OperatorObserve("desk-1"))
    /\ WF_vars(retry["desk-1"] <= MaxRetry /\ CyberdeskCreate("desk-1"))

\* A Cyberdesk provisioned and stopped, with everything that can come
\* before its deletion: the handler delivered again, the clone moving, the
\* VM deleted by somebody else.
NextCleanup ==
    \/ \E cd \in {"desk-1"} : crState[cd] = "absent" /\ GatewayCreate(cd)
    \/ \E cd \in {"desk-1"} : GatewayStop(cd)
    \/ \E cd \in {"desk-1"} : OperatorObserve(cd)
    \/ \E cd \in {"desk-1"} : retry[cd] <= ShortRetry /\ CyberdeskCreate(cd)
    \/ \E cd \in {"desk-1"} : CyberdeskDelete(cd)
    \/ \E cd \in {"desk-1"} : Redeliver(cd)
    \/ \E c \in CloneNames : CloneProgress(c)
    \/ \E n \in VMNames : VmLost(n)

SpecCleanup == Init /\ [][NextCleanup]_vars

\* The expiry timers of the Cyberdesks next to the handlers that can remove
\* a resource while a timer run holds its body.
NextSweep ==
    \/ \E cd \in Desks : crState[cd] = "absent" /\ now = 0 /\ GatewayCreate(cd)
    \/ GatewayStop("desk-1")
    \/ \E cd \in Desks : OperatorObserve(cd)
    \/ \E cd \in Desks : retry[cd] = 0 /\ CyberdeskCreate(cd) /\ faults' = faults
    \/ CyberdeskDelete("desk-1")
    \/ \E cd \in Desks : KopfHoldsBody(cd)
    \/ \E cd \in Desks : TimeoutCheckOnBody(cd)
    \/ Tick(ProvMaxTime)

SpecSweep == InitSync /\ [][NextSweep]_vars

\* Time passes for a lease: the last instant of the clock is entered only
\* once cyberdesk_create has settled for every Cyberdesk there is, so that
\* every expiryTime written lies within the clock.
LeaseTick ==
    /\ now + 1 < MaxTime \/ \A d \in Desks : crState[d] = "present" => hstate[d] \in {"done", "failed"}
    /\ Tick(MaxTime)

\* A Cyberdesk from its creation to the end of its lease (the shortest one
\* that can be asked for, so that it ends within the clock), provisioned by
\* cloning: the create handler (delivered again while the clock has an
\* instant left), the clone moving, the expiry timer, the deletion handler,
\* time passing.
NextLease ==
    \/ /\ crState["desk-1"] = "absent" /\ now = 0
       /\ GatewayCreate("desk-1")
       /\ \A t \in Timeouts : timeoutMs'["desk-1"] <= t
    \/ OperatorObserve("desk-1")
    \/ retry["desk-1"] <= MaxRetry /\ CyberdeskCreate("desk-1")
    \/ now < MaxTime /\ Redeliver("desk-1")
    \/ \E c \in CloneNames : CloneProgress(c)
    \/ CyberdeskTimeoutCheck("desk-1")
    \/ CyberdeskDelete("desk-1")
    \/ LeaseTick

SpecLease == InitWait /\ [][NextLease]_vars

\* kopf at work: the create handler is run when the resource is seen and
\* again after every TemporaryError, the timer runs every 60 seconds on a
\* resource that is there, the deletion handler runs on a terminating
\* resource until it returns, and time passes whatever else happens
\* (strong fairness: no run of handlers holds the clock back for ever).
\* Nothing obliges a
\* second delivery of the create handler, and the clone moves as KubeVirt
\* moves it, or not at all.
SpecLeaseFair ==
    /\ SpecLease
    /\ WF_vars(OperatorObserve("desk-1"))
    /\ WF_vars(retry["desk-1"] <= MaxRetry /\ CyberdeskCreate("desk-1"))
    /\ WF_vars(CyberdeskTimeoutCheck("desk-1"))
    /\ WF_vars(CyberdeskDelete("desk-1"))
    /\ SF_vars(LeaseTick)

\* The operator meets a Cyberdesk provisioned by an earlier version of it:
\* cyberdesk_create is delivered a resource whose status names its VM with
\* lastPhase Running (the older value the handler still accepts), Created,
\* or no lastPhase.
LegacyPhases == {None, "Created", "Running"}

LegacyStatus(vm_ref, last_phase) ==
    LET core == [virtualMachineRef |-> vm_ref, startTime |-> 0, expiryTime |-> 1]
    IN  IF last_phase = None THEN core ELSE Overlay(core, [lastPhase |-> last_phase])

InitLegacy ==
    /\ crState = [d \in Desks |-> IF d = "desk-1" THEN "present" ELSE "absent"]
    /\ finalizer = [d \in Desks |-> d = "desk-1"]
    /\ timeoutMs = [d \in Desks |-> 1]
    /\ \E last_phase \in LegacyPhases :
          status = [d \in Desks |-> IF d = "desk-1" THEN LegacyStatus("desk-1", last_phase)
                                    ELSE EmptyDict]
    /\ hstate = [d \in Desks |-> IF d = "desk-1" THEN "todo" ELSE "none"]
    /\ retry = [d \in Desks |-> 0]
    /\ \E p \in [WarmSet -> {"Running", "Stopped"}] :
          vms = [n \in VMNames |->
                    IF n \in WarmSet THEN WarmVM(p[n])
                    ELSE IF n = "desk-1"
                    THEN EnsureVmPatchedAndRunning(
                             [m \in VMNames |-> [NoVM EXCEPT !.exists = TRUE,
                                                              !.printable = "Running"]],
                             n, TRUE).vms[n]
                    ELSE NoVM]
    /\ clones = [c \in CloneNames |-> NoClone]
    /\ gatewayUrl \in BOOLEAN
    /\ now = 0
    /\ last = NoRun
    /\ faults = 0
    /\ gwLog = NoCalls
    /\ IdleSync /\ IdleProxy /\ IdleSdk /\ IdleExt

NextLegacy ==
    \/ \E cd \in {"desk-1"} : retry[cd] <= ShortRetry /\ CyberdeskCreate(cd)
    \/ \E cd \in {"desk-1"} : Redeliver(cd)
    \/ \E c \in CloneNames : CloneProgress(c)
    \/ Tick(ProvMaxTime)

SpecLegacy == InitLegacy /\ [][NextLegacy]_vars

\* cyberdesk_create is delivered a Cyberdesk applied to the cluster as it
\* may be: its spec with or without timeoutMs, its status empty or naming
\* its VM with one or both of the time fields missing (the case the
\* already-provisioned branch tests for).
PartialStatus(vm_ref, last_phase, keys) ==
    LET full == LegacyStatus(vm_ref, last_phase)
    IN  [k \in (DOMAIN full \ TimeKeys) \cup keys |-> full[k]]

InitBackfill ==
    /\ crState = [d \in Desks |-> IF d = "desk-1" THEN "present" ELSE "absent"]
    /\ finalizer = [d \in Desks |-> d = "desk-1"]
    /\ \E m \in Timeouts \cup {TimeoutAbsent} :
          timeoutMs = [d \in Desks |-> IF d = "desk-1" THEN m ELSE 1]
    /\ \E st \in {EmptyDict} \cup
                  {PartialStatus("desk-1", ph, keys) :
                      ph \in {"Cloned", "Running"},
                      keys \in (SUBSET TimeKeys) \ {TimeKeys}} :
          /\ status = [d \in Desks |-> IF d = "desk-1" THEN st ELSE EmptyDict]
          /\ \E p \in [WarmSet -> {"Running", "Stopped"}] :
                vms = [n \in VMNames |->
                          IF n \in WarmSet THEN WarmVM(p[n])
                          ELSE IF n = "desk-1" /\ st # EmptyDict
                          THEN EnsureVmPatchedAndRunning(
                                   [m \in VMNames |-> [NoVM EXCEPT !.exists = TRUE,
                                                                    !.printable = "Running"]],
                                   n, TRUE).vms[n]
                          ELSE NoVM]
    /\ hstate = [d \in Desks |-> IF d = "desk-1" THEN "todo" ELSE "none"]
    /\ retry = [d \in Desks |-> 0]
    /\ clones = [c \in CloneNames |-> NoClone]
    /\ gatewayUrl = TRUE
    /\ now = 0
    /\ last = NoRun
    /\ faults = 0
    /\ gwLog = NoCalls
    /\ IdleSync /\ IdleProxy /\ IdleSdk /\ IdleExt

SpecBackfill == InitBackfill /\ [][NextLegacy]_vars

\* The warm pool in any state the search can meet, and calls of
\* get_free_vm_from_pool on it.
InitPool ==
    /\ crState = [d \in Desks |-> "absent"]
    /\ finalizer = [d \in Desks |-> FALSE]
    /\ timeoutMs = [d \in Desks |-> 1]
    /\ status = [d \in Desks |-> EmptyDict]
    /\ hstate = [d \in Desks |-> "none"]
    /\ retry = [d \in Desks |-> 0]
    /\ \E p \in [WarmSet -> PoolVmStates] :
          vms = [n \in VMNames |-> IF n \in WarmSet THEN p[n] ELSE NoVM]
    /\ clones = [c \in CloneNames |-> NoClone]
    /\ gatewayUrl = TRUE
    /\ now = 0
    /\ last = NoRun
    /\ faults = 0
    /\ gwLog = NoCalls
    /\ IdleSync /\ IdleProxy /\ IdleSdk /\ IdleExt

NextPool ==
    \/ GetFreeVmFromPoolCall
    \/ \E n \in WarmSet : WarmVmMoves(n)

SpecPool == InitPool /\ [][NextPool]_vars

\* Two Cyberdesks reconciled at the same time: kopf runs the handlers of
\* distinct resources concurrently, so their API calls interleave.
NextRace ==
    \/ \E cd \in Desks : crState[cd] = "absent" /\ GatewayCreate(cd)
    \/ \E cd \in Desks : OperatorObserve(cd)
    \/ \E cd \in Desks : CreateListsPool(cd)
    \/ \E cd \in Desks : CreateAfterList(cd)

SpecRace == Init /\ [][NextRace]_vars

----------------------------------------------------------------------------
(* Properties of the provisioning reconciler *)

\* The warm-pool VMs get_free_vm_from_pool can pluck: listed as warm=ready,
\* not in use, printableStatus Running.
Claimable(vmv) ==
    {n \in WarmSet : /\ vmv[n].exists /\ vmv[n].warm = "ready"
                     /\ ~vmv[n].inUse /\ vmv[n].printable = "Running"}

\* The step is one run of cyberdesk_create on cd.
CreateStep(cd) == last'.h = "create" /\ last'.cd = cd

C2_WarmPoolPriority ==
    [][\A cd \in Desks :
          (/\ CreateStep(cd)
           /\ last'.apiOK
           /\ Get(status[cd], "virtualMachineRef") = None
           /\ Get(status[cd], "cloneOperationName") = None
           /\ Claimable(vms) # {})
          => /\ \E n \in Claimable(vms) :
                   /\ vms'[n].warm = "claimed" /\ vms'[n].inUse /\ ~vms'[n].owned
                   /\ Get(status'[cd], "virtualMachineRef") = n
                   /\ Get(status'[cd], "lastPhase") = "Plucked"
             /\ clones' = clones]_vars

\* C3: with no claimable warm VM, the first run on a fresh Cyberdesk N leaves
\* cloneOperationName = clone-for-N, lastPhase = CloningInitiated and no
\* virtualMachineRef, a further run of the handler is then due, and a run
\* that finds no clone object creates clone-for-N from snapshot-golden-vm
\* with target N.
C3_CloneFallback ==
    [][\A cd \in Desks :
          /\ (/\ CreateStep(cd)
              /\ last'.apiOK
              /\ last'.listed
              /\ Claimable(vms) = {})
             => /\ Get(status'[cd], "cloneOperationName") = CloneNameFor(cd)
                /\ Get(status'[cd], "lastPhase") = "CloningInitiated"
                /\ Get(status'[cd], "virtualMachineRef") = None
                /\ hstate'[cd] = "todo"
          /\ (/\ CreateStep(cd)
              /\ last'.apiOK
              /\ last'.seen = "absent")
             => /\ clones'[CloneNameFor(cd)].exists
                /\ clones'[CloneNameFor(cd)].source = GOLDEN_SNAPSHOT_NAME
                /\ clones'[CloneNameFor(cd)].target = cd]_vars

\* The VM patch of _ensure_vm_patched_and_running is on VM n.
PatchedFor(vmv, n) ==
    /\ vmv[n].exists /\ vmv[n].runAlways /\ vmv[n].managed
    /\ vmv[n].app = "cyberdesk" /\ vmv[n].instance = n
    /\ vmv[n].hostname = n /\ vmv[n].subdomain = "kubevirt-vm-headless"

\* C4: a run that finds the tracked clone Succeeded patches VM N and, every
\* call answering, writes virtualMachineRef = N, lastPhase = Cloned, the
\* times, and clears cloneOperationName; with the VM patch not made the
\* status stays as it was.
C4_CloneSuccess ==
    [][\A cd \in Desks :
          LET cur == status[cd]
              c   == Get(cur, "cloneOperationName")
              cloned == /\ Get(status'[cd], "virtualMachineRef") = cd
                        /\ Get(status'[cd], "lastPhase") = "Cloned"
          IN  (/\ CreateStep(cd)
               /\ Get(cur, "virtualMachineRef") = None
               /\ c # None
               /\ clones[c].exists /\ clones[c].phase = "Succeeded")
              => /\ last'.apiOK
                    => /\ PatchedFor(vms', cd)
                       /\ cloned
                       /\ Get(status'[cd], "startTime") = now
                       /\ Get(status'[cd], "expiryTime") = now + timeoutMs[cd]
                       /\ "cloneOperationName" \notin DOMAIN status'[cd]
                       /\ hstate'[cd] = "done"
                 /\ ~PatchedFor(vms', cd)
                    => /\ status'[cd] = cur
                       /\ hstate'[cd] = "todo"]_vars

\* C4's case: a run saw the clone Succeeded and recorded the cloned VM.
C4_Witness ==
    /\ last.h = "create" /\ last.seen = "Succeeded" /\ last.outcome = "done"
    /\ Get(status[last.cd], "lastPhase") = "Cloned"
    /\ PatchedFor(vms, last.cd)

----------------------------------------------------------------------------
(* Properties of the expiry timer and of the gateway's create and stop *)

\* The step is one run of cyberdesk_timeout_check on cd.
TimerStep(cd) == last'.h = "timer" /\ last'.cd = cd

\* C6 as stated: a run of the expiry timer issues the delete of the
\* Cyberdesk exactly when its expiryTime is strictly in the past, and leaves
\* it untouched otherwise.
C6_ExpirySweepStrict ==
    [][\A cd \in Desks :
          TimerStep(cd)
          => /\ last'.deleted <=> /\ "expiryTime" \in DOMAIN status[cd]
                                  /\ status[cd]["expiryTime"] < now
             /\ ~last'.deleted => /\ crState'[cd] = crState[cd]
                                  /\ status'[cd] = status[cd]]_vars

\* C6, amended: a run of the expiry timer issues the delete of the Cyberdesk
\* exactly when its expiryTime is now or in the past (the resource is then
\* terminating once the call succeeded); without an expiryTime or with one
\* in the future the resource is left untouched.
C6_ExpirySweep ==
    [][\A cd \in Desks :
          TimerStep(cd)
          => /\ last'.deleted <=> /\ "expiryTime" \in DOMAIN status[cd]
                                  /\ status[cd]["expiryTime"] <= now
             /\ last'.deleted /\ last'.apiOK => crState'[cd] = "terminating"
             /\ ~last'.deleted => /\ crState'[cd] = crState[cd]
                                  /\ finalizer'[cd] = finalizer[cd]
                                  /\ status'[cd] = status[cd]]_vars

\* C6's case: the timer ran at the very instant of expiry and the resource
\* is being deleted.
C6_Witness ==
    /\ last.h = "timer" /\ last.deleted /\ last.apiOK
    /\ last.pre["expiryTime"] = last.at
    /\ crState[last.cd] = "terminating"

\* C8: of two gateway calls for one id that follow each other at once and
\* that the API server answers, a second create after a 201 gets 409, and a
\* second stop after a 200 gets 404, the deletion handler finished or not.
C8_GatewayRoundTrip ==
    \A cd \in Desks :
       Len(gwLog[cd]) = 2 /\ gwLog[cd][2].code # 500
       => /\ (/\ gwLog[cd][1].op = "create" /\ gwLog[cd][1].code = 201
              /\ gwLog[cd][2].op = "create")
             => gwLog[cd][2].code = 409
          /\ (/\ gwLog[cd][1].op = "stop" /\ gwLog[cd][1].code = 200
              /\ gwLog[cd][2].op = "stop")
             => gwLog[cd][2].code = 404

----------------------------------------------------------------------------
(* Properties of the status sync, the command proxy and the SDK model *)

\* C7: a phase notification of a VMI labeled app=cyberdesk with a
\* cyberdesk-instance label maps the phase by the table, issues the write
\* exactly when the mapped status differs from the status it read, writes
\* the mapped status to the instance's row and nothing else; a notification
\* whose mapped status is the stored one causes no write.
C7_StatusMapping ==
    [][(/\ sync'.h = "vmi"
        /\ sync'.new \in KubeVirtVMIPhase
        /\ sync'.app = "cyberdesk"
        /\ sync'.instance # None)
       => LET i == sync'.instance
              table == [Pending |-> "pending", Scheduling |-> "pending",
                        Scheduled |-> "pending", Running |-> "pending",
                        Succeeded |-> "terminated", Failed |-> "error",
                        Unknown |-> "error"]
              mapped == table[sync'.new]
          IN  /\ sync'.desired = mapped
              /\ sync'.wrote <=> (sync'.read # mapped)
              /\ sync'.readOK => sync'.read = (IF db[i] = "norow" THEN None ELSE db[i])
              /\ sync'.readOK /\ db[i] = mapped => ~sync'.wrote /\ db' = db
              /\ sync'.wrote /\ sync'.writeOK /\ db[i] # "norow" => db'[i] = mapped
              /\ ~(sync'.wrote /\ sync'.writeOK) => db' = db
              /\ \A j \in Desks \ {i} : db'[j] = db[j]]_vars

\* C7's case: a notification of phase Succeeded found another status stored
\* and wrote terminated.
C7_Witness ==
    /\ sync.h = "vmi" /\ sync.new = "Succeeded" /\ sync.wrote
    /\ sync.read = "running"
    /\ db[sync.instance] = "terminated"

\* C9: when the VM-side endpoint answers execute-command with a status s
\* outside 2xx, the gateway answers 502 with s in X-VM-Status-Code, in the
\* cluster and outside it.
C9_CommandProxyErrors ==
    (/\ resp.op = "execute"
     /\ resp.vm.kind = "answer"
     /\ ~(200 <= resp.vm.status /\ resp.vm.status <= 299))
    => /\ resp.code = 502
       /\ resp.header = Str(resp.vm.status)

\* C10: a wire object with type wait and an ms deserializes; from_dict
\* leaves the caller's dict as it was, every extra key is found in the
\* object with its value, and to_dict gives the wire object back.
C10_SdkRoundTrip ==
    /\ (/\ sdkPc \notin {"idle", "received"}
        /\ wire["type"] = "wait" /\ "ms" \in DOMAIN wire)
       => sdkPc # "raised"
    /\ sdkPc \in {"parsed", "serialized"}
       => /\ src_dict = wire
          /\ \A k \in DOMAIN wire \ {"type", "ms"} :
                /\ k \in DOMAIN obj.additional_properties
                /\ GetItem(obj, k) = [x \in {k} |-> wire[k]]
    /\ sdkPc = "serialized" => back = wire

\* C10's case: a wait action of 1000 ms with two extra keys went through
\* from_dict and to_dict.
C10_Witness ==
    /\ sdkPc = "serialized"
    /\ DOMAIN wire = {"type", "ms", "note", "count"}
    /\ wire["ms"] = 1000
    /\ back = wire
    /\ obj.additional_properties = [note |-> wire["note"], count |-> wire["count"]]

----------------------------------------------------------------------------
(* Properties of the VNC proxy *)

----------------------------------------------------------------------------
(* Properties of the operator's end-to-end flow *)

C13_VmDeletedOnDelete ==
    /\ [][\A n \in VMNames :
             (/\ crState["desk-1"] # "absent"
              /\ crState'["desk-1"] = "absent"
              /\ Get(status["desk-1"], "virtualMachineRef") = n)
             => /\ last'.h = "delete" /\ last'.cd = "desk-1"
                /\ last'.apiOK
                /\ last'.patched = n
                /\ ~vms'[n].exists]_vars
    /\ \A n \in WarmSet \cup {"desk-1"} :
          (/\ crState["desk-1"] = "terminating"
           /\ Get(status["desk-1"], "virtualMachineRef") = n)
          ~> ~vms[n].exists

\* C13's case: the deletion handler found the VM named in the status,
\* failed to delete it once, and released the Cyberdesk with the VM gone.
C13_Witness ==
    /\ last.h = "delete" /\ last.outcome = "done" /\ last.patched \in WarmSet
    /\ Get(last.pre, "virtualMachineRef") = last.patched
    /\ faults > 0
    /\ crState[last.cd] = "absent"
    /\ ~vms[last.patched].exists

\* C14: a run of crd_bootstrap that the API server answers with success or
\* with 409 ends without error with the CRD there, whether it was there
\* before or not; one answered 429 asks for a retry after 10 seconds; one
\* answered otherwise fails for good; and the CRD is never taken away.
C14_CrdBootstrap ==
    [][\A name \in Starters :
          (bootLast'.name = name /\ boot[name].hstate = "todo")
          => LET answer == bootLast'.answer IN
             /\ answer \in {201, 409}
                => /\ crd' /\ boot'[name].hstate = "done"
                   /\ bootLast'.outcome = "done"
             /\ answer = 201 <=> (~crd /\ crd')
             /\ answer = 429
                => /\ boot'[name].hstate = "todo"
                   /\ boot'[name].retry = boot[name].retry + 1
                   /\ bootLast'.delay = 10
             /\ answer \notin {201, 409, 429}
                => /\ boot'[name].hstate = "failed"
                   /\ boot'[name].retry = boot[name].retry
             /\ crd => crd']_vars

\* C14's case: the CRD was there already, the create call answered 409 and
\* the handler ended without error.
C14_Witness ==
    /\ bootLast.answer = 409 /\ bootLast.existed /\ bootLast.outcome = "done"
    /\ crd /\ boot[bootLast.name].hstate = "done"

----------------------------------------------------------------------------
(* Properties of the ready callback *)

\* C15: the ready callback answers 200 only with the row of the id holding
\* status running and the stream URL it answers with; when the update raised
\* or matched no row it answers 500.
C15_ReadyCallback ==
    (sync.h = "ready")
    => LET i == sync.instance IN
       /\ sync.code \in {200, 500, 503}
       /\ sync.code = 200
          => /\ db[i] = "running"
             /\ sync.stream_url # None
             /\ stream[i] = sync.stream_url
       /\ (sync.wrote /\ (~sync.writeOK \/ db[i] = "norow")) => sync.code = 500

\* C15's case: the callback for an instance with a row answered 200 and the
\* row is running with the stream URL.
C15_Witness ==
    /\ sync.h = "ready" /\ sync.code = 200
    /\ db[sync.instance] = "running"
    /\ stream[sync.instance] = StreamUrl("203.0.113.7", sync.instance)

----------------------------------------------------------------------------
(* Properties of concurrent reconciliations *)

\* C16: no VM is the virtualMachineRef, with lastPhase Plucked, of two
\* Cyberdesks.
C16_NoDoubleClaim ==
    \A a \in Desks : \A b \in Desks \ {a} :
        ~(/\ Get(status[a], "lastPhase") = "Plucked"
          /\ Get(status[b], "lastPhase") = "Plucked"
          /\ Get(status[a], "virtualMachineRef") # None
          /\ Get(status[a], "virtualMachineRef") = Get(status[b], "virtualMachineRef"))

----------------------------------------------------------------------------
(* Properties of cyberdesk_create on a status that names a VM *)

\* C17: a run of cyberdesk_create on a status that names a virtualMachineRef
\* (lastPhase Plucked, Cloned or Running) whose VM is gone does not end as a
\* retry of the same patch: the status stops naming the missing VM.
C17_MissingVmReprovisions ==
    [][ \A cd \in Desks :
          (/\ last'.h = "create" /\ last'.cd = cd
           /\ IsProvisioned(status[cd])
           /\ ~vms[Get(status[cd], "virtualMachineRef")].exists)
          => /\ last'.outcome # "retry"
             /\ Get(status'[cd], "virtualMachineRef") # Get(status[cd], "virtualMachineRef")
      ]_vars

\* C18: when a run of cyberdesk_create for a Cyberdesk has ended (return,
\* retry or permanent failure), every VM the run marked in-use is the
\* virtualMachineRef of that Cyberdesk's status.
C18_ClaimedVmIsTracked ==
    [][ \A cd \in Desks : \A n \in VMNames :
          (/\ last'.h = "create" /\ last'.cd = cd
           /\ ~vms[n].inUse /\ vms'[n].inUse)
          => Get(status'[cd], "virtualMachineRef") = n
      ]_vars

\* C19: a run of cyberdesk_create on a status whose virtualMachineRef is set,
\* whatever its lastPhase, neither lists or plucks a warm-pool VM nor creates
\* a VirtualMachineClone.
C19_ProvisionedMeansNoOp ==
    [][ \A cd \in Desks :
          (/\ last'.h = "create" /\ last'.cd = cd
           /\ Get(status[cd], "virtualMachineRef") # None)
          => /\ ~last'.listed
             /\ last'.plucked = None
             /\ ~last'.created
      ]_vars

\* C20: in every status.cyberdesk_create the runs of cyberdesk_create build
\* from an empty status, virtualMachineRef and cloneOperationName are not
\* both set, virtualMachineRef comes with lastPhase Plucked or Cloned, and
\* cloneOperationName comes with lastPhase CloningInitiated.
C20_StatusInvariant ==
    \A cd \in Desks :
        LET vm_ref        == Get(status[cd], "virtualMachineRef")
            clone_op_name == Get(status[cd], "cloneOperationName")
            last_phase    == Get(status[cd], "lastPhase")
        IN  /\ ~(vm_ref # None /\ clone_op_name # None)
            /\ vm_ref # None => last_phase \in {"Plucked", "Cloned"}
            /\ clone_op_name # None => last_phase = "CloningInitiated"

\* A run that found its clone succeeded has replaced cloneOperationName by
\* virtualMachineRef.
C20_Witness ==
    /\ last.h = "create" /\ last.outcome = "done"
    /\ Get(last.pre, "cloneOperationName") # None
    /\ Get(last.pre, "lastPhase") = "CloningInitiated"
    /\ Get(status[last.cd], "virtualMachineRef") = last.cd
    /\ Get(status[last.cd], "lastPhase") = "Cloned"

----------------------------------------------------------------------------
(* Properties of the clone path *)

\* C21: a run of cyberdesk_create on a status with cloneOperationName and
\* no virtualMachineRef evaluates the clone and neither lists nor plucks a
\* warm-pool VM: no VM becomes in-use by it.
C21_CloneInitiatedSkipsPool ==
    [][ \A cd \in Desks :
          (/\ last'.h = "create" /\ last'.cd = cd
           /\ Get(status[cd], "cloneOperationName") # None
           /\ Get(status[cd], "virtualMachineRef") = None)
          => /\ ~last'.listed
             /\ last'.plucked = None
             /\ \A n \in VMNames : vms'[n].inUse = vms[n].inUse
             /\ Get(status'[cd], "lastPhase") # "Plucked"
             /\ last'.seen # "unseen" \/ ~last'.apiOK
      ]_vars

\* A run on a status with cloneOperationName took place while a warm VM
\* was Running and free, and read the clone object.
C21_Witness ==
    /\ last.h = "create"
    /\ Get(last.pre, "cloneOperationName") # None
    /\ Get(last.pre, "virtualMachineRef") = None
    /\ last.seen # "unseen"
    /\ \E n \in WarmSet : vms[n].exists /\ vms[n].warm = "ready" /\ ~vms[n].inUse
                            /\ vms[n].printable = "Running"

\* C22: a run of cyberdesk_create that starts without cloneOperationName
\* creates no clone object, and a VirtualMachineClone comes to exist only by
\* a run for the Cyberdesk whose status already carried that clone's name,
\* clone-for-<id>, when the run started.
C22_NoOrphanedClone ==
    [][ /\ \A cd \in Desks :
             (/\ last'.h = "create" /\ last'.cd = cd
              /\ Get(status[cd], "cloneOperationName") = None)
             => ~last'.created /\ clones' = clones
        /\ \A c \in CloneNames :
             (~clones[c].exists /\ clones'[c].exists)
             => \E cd \in Desks :
                   /\ last'.h = "create" /\ last'.cd = cd /\ last'.created
                   /\ c = CloneNameFor(cd)
                   /\ Get(status[cd], "cloneOperationName") = c
      ]_vars

\* A run that started with the clone name in the status has created the
\* clone object.
C22_Witness ==
    /\ last.h = "create" /\ last.created
    /\ Get(last.pre, "cloneOperationName") = CloneNameFor(last.cd)
    /\ clones[CloneNameFor(last.cd)].exists

\* C23: every created Cyberdesk eventually has virtualMachineRef set, or has
\* failed permanently with lastPhase CloneFailed or CloneTimeout.
C23_ProvisioningEnds ==
    \A cd \in Desks :
        (crState[cd] = "present")
        ~> \/ Get(status[cd], "virtualMachineRef") # None
           \/ /\ hstate[cd] = "failed"
              /\ Get(status[cd], "lastPhase") \in {"CloneFailed", "CloneTimeout"}

\* C24: a run of cyberdesk_create that finds its clone with phase Failed
\* records lastPhase CloneFailed with virtualMachineRef and
\* cloneOperationName removed and fails permanently: no retry is requested
\* and no VM is patched.
C24_CloneFailure ==
    [][ \A cd \in Desks :
          (/\ last'.h = "create" /\ last'.cd = cd
           /\ last'.seen = "Failed")
          => /\ Get(status'[cd], "lastPhase") = "CloneFailed"
             /\ Get(status'[cd], "virtualMachineRef") = None
             /\ Get(status'[cd], "cloneOperationName") = None
             /\ last'.outcome = "failed"
             /\ hstate'[cd] = "failed"
             /\ retry'[cd] = retry[cd]
             /\ last'.patched = None
             /\ vms' = vms
      ]_vars

\* A run has found the clone it tracked with phase Failed.
C24_Witness ==
    /\ last.h = "create"
    /\ last.seen = "Failed"
    /\ Get(last.pre, "cloneOperationName") = CloneNameFor(last.cd)
    /\ clones[CloneNameFor(last.cd)].phase = "Failed"

----------------------------------------------------------------------------
(* Properties of the warm-pool path *)

\* C25: a run of cyberdesk_create that plucked and patched a warm VM and
\* could not notify the gateway (the call failed, or there is no gateway
\* base URL) still records virtualMachineRef = the plucked VM and lastPhase
\* Plucked.
C25_ReadyFailureNotFatal ==
    [][ \A cd \in Desks :
          (/\ last'.h = "create" /\ last'.cd = cd
           /\ last'.plucked # None
           /\ last'.notified \in {"failed", "skipped"})
          => /\ Get(status'[cd], "virtualMachineRef") = last'.plucked
             /\ Get(status'[cd], "lastPhase") = "Plucked"
      ]_vars

\* C26: a call of get_free_vm_from_pool whose list call answered does not
\* raise; it gives the first VM in list order that is ready, not in use and
\* Running and whose pluck patch succeeds, passing over the VMs whose patch
\* fails, or None when there is no such VM; it marks the VM it gives, and
\* no other VM, as in use.
C26_PoolSearchTolerant ==
    (pluck.called /\ pluck.listOK) =>
        LET good == {i \in 1..Len(WarmVMs) :
                        /\ WarmVMs[i] \in Claimable(pluck.before)
                        /\ WarmVMs[i] \notin pluck.failing}
        IN  /\ ~pluck.raised
            /\ good = {} => pluck.name = None
            /\ good # {} => /\ pluck.name \in {WarmVMs[i] : i \in good}
                            /\ \A i \in good : \E j \in good :
                                   WarmVMs[j] = pluck.name /\ j <= i
            /\ \A n \in VMNames :
                   IF n = pluck.name
                   THEN vms[n].inUse /\ vms[n].warm = "claimed" /\ ~pluck.before[n].inUse
                   ELSE vms[n] = pluck.before[n]

\* The patch of the first claimable VM failed and the call gave the second.
C26_Witness ==
    /\ pluck.called /\ pluck.listOK
    /\ WarmVMs[1] \in Claimable(pluck.before)
    /\ WarmVMs[1] \in pluck.failing
    /\ pluck.name = WarmVMs[2]
    /\ ~vms[WarmVMs[1]].inUse

----------------------------------------------------------------------------
(* Properties of the datastore handlers and of cleanup *)

\* C27: a row whose status is running is not written back to pending by a
\* run of vmi_phase_change for the phases Pending, Scheduling, Scheduled or
\* Running.
C27_RunningNeverDemoted ==
    [][ \A i \in Desks :
          (/\ db[i] = "running"
           /\ sync'.h = "vmi" /\ sync'.app = "cyberdesk" /\ sync'.instance = i
           /\ sync'.new \in {"Pending", "Scheduling", "Scheduled", "Running"})
          => db'[i] = "running"
      ]_vars

\* C28: a run of vmi_phase_change for a VMI labeled app=cyberdesk with a
\* cyberdesk-instance label and a phase outside KubeVirtVMIPhase writes the
\* status error to the row of that instance and ends without raising.
C28_UnrecognizedPhase ==
    [][ \A i \in Desks :
          (/\ sync'.h = "vmi" /\ sync'.app = "cyberdesk" /\ sync'.instance = i
           /\ sync'.new # None /\ sync'.new \notin KubeVirtVMIPhase
           /\ sync'.readOK /\ sync'.writeOK
           /\ db[i] # "norow")
          => /\ sync'.outcome # "raised"
             /\ db'[i] = "error"
      ]_vars

\* C29: a run of cyberdesk_delete on a status with virtualMachineRef sends
\* its delete to that VM; with the answer 200, 404 or 410 it ends and the
\* resource is released, with any other answer it asks for a retry after 15
\* seconds; no other VM and no clone object is deleted.
C29_ProvisionedCleanup ==
    [][ \A cd \in Desks : \A n \in VMNames :
          (/\ last'.h = "delete" /\ last'.cd = cd
           /\ Get(status[cd], "virtualMachineRef") = n)
          => /\ last'.target = n
             /\ last'.answer \in {200, 404, 410}
                => /\ last'.outcome = "done"
                   /\ crState'[cd] = "absent"
                   /\ ~vms'[n].exists
             /\ last'.answer \notin {200, 404, 410}
                => /\ last'.outcome = "retry"
                   /\ last'.delay = 15
                   /\ crState'[cd] = "terminating"
                   /\ vms'[n] = vms[n]
             /\ \A m \in VMNames \ {n} : vms'[m] = vms[m]
             /\ clones' = clones
      ]_vars

\* The VM named in the status was gone already: the delete was answered 410
\* and the handler ended.
C29_Witness ==
    /\ last.h = "delete" /\ last.outcome = "done"
    /\ last.answer = 410
    /\ Get(last.pre, "virtualMachineRef") = last.target
    /\ crState[last.cd] = "absent"

\* C30: a run of cyberdesk_delete on a status with cloneOperationName and
\* no virtualMachineRef sends its delete to that clone object and ends with
\* the resource released whatever the answer; with neither field in the
\* status it sends no delete.  No VM is deleted in either case.
C30_CloneCleanup ==
    [][ \A cd \in Desks :
          (/\ last'.h = "delete" /\ last'.cd = cd
           /\ Get(status[cd], "virtualMachineRef") = None)
          => LET clone_op_name == Get(status[cd], "cloneOperationName") IN
             /\ last'.outcome = "done"
             /\ crState'[cd] = "absent"
             /\ vms' = vms
             /\ clone_op_name # None
                => /\ last'.target = clone_op_name
                   /\ last'.answer # 0
                   /\ last'.answer = 200 => ~clones'[clone_op_name].exists
                   /\ \A c \in CloneNames \ {clone_op_name} : clones'[c] = clones[c]
             /\ clone_op_name = None
                => /\ last'.target = None
                   /\ last'.answer = 0
                   /\ clones' = clones
      ]_vars

\* The delete of the clone in flight failed and the resource was released
\* all the same, the clone object left behind.
C30_Witness ==
    /\ last.h = "delete" /\ last.outcome = "done"
    /\ Get(last.pre, "virtualMachineRef") = None
    /\ Get(last.pre, "cloneOperationName") = last.target
    /\ last.answer = 500
    /\ clones[last.target].exists
    /\ crState[last.cd] = "absent"

----------------------------------------------------------------------------
(* Properties of teardown and of the lease *)

\* C31: when the deletion handler of a Cyberdesk has completed, no VM
\* created or claimed for that instance remains: neither the VM named after
\* the instance (the clone target) nor a VM labeled cyberdesk-instance with
\* its name.
C31_NoVmSurvives ==
    [][ \A cd \in Desks :
          (/\ last'.h = "delete" /\ last'.cd = cd
           /\ last'.outcome = "done")
          => /\ ~vms'[cd].exists
             /\ \A n \in VMNames : vms'[n].exists => vms'[n].instance # cd
      ]_vars

\* C32: a run of the expiry timer whose delete of the expired Cyberdesk is
\* answered 404 ends as a success without raising, and a timer run for one
\* Cyberdesk, failed or not, changes nothing of another Cyberdesk and does
\* not take away the body held for the other's timer.
C32_SweeperErrors ==
    [][ \A cd \in Desks :
          (last'.h = "timer" /\ last'.cd = cd /\ last'.deleted)
          => /\ last'.answer = 404 => last'.outcome = "done"
             /\ \A other \in Desks \ {cd} :
                   /\ crState'[other] = crState[other]
                   /\ status'[other] = status[other]
                   /\ cached'[other] = cached[other]
      ]_vars

\* C33: every Cyberdesk resource is in the end deleted by the expiry timer,
\* whatever became of its provisioning: a resource that is there does not
\* stay for ever.
C33_EveryLeaseEnds ==
    \A cd \in Desks : (crState[cd] = "present") ~> (crState[cd] # "present")

\* The lease of Cyberdesk cd as the claim counts it: spec.timeoutMs, and
\* 3,600,000 when the spec has none.
LeaseOf(cd) == IF timeoutMs[cd] = TimeoutAbsent THEN 3600000 ELSE timeoutMs[cd]

\* The step is a run of cyberdesk_create on cd that writes a status with an
\* expiryTime: a pluck, a clone found Succeeded, or the backfill of a
\* provisioned status that lacked a time field.
WritesLease(cd) ==
    /\ CreateStep(cd)
    /\ status'[cd] # status[cd]
    /\ "expiryTime" \in DOMAIN status'[cd]

\* C34: every status cyberdesk_create writes with an expiryTime has
\* startTime = the time of that run and expiryTime = startTime + the lease
\* (spec.timeoutMs, 3,600,000 without one).
C34_LeaseArithmetic ==
    [][ \A cd \in Desks :
          WritesLease(cd)
          => /\ Get(status'[cd], "startTime") = now
             /\ status'[cd]["expiryTime"] = now + LeaseOf(cd)
      ]_vars

\* C34's cases: a spec without timeoutMs was given the default lease by a
\* pluck, by a clone, and by the backfill of a partial status.
C34_Witness ==
    /\ last.h = "create" /\ last.cd = "desk-1"
    /\ timeoutMs["desk-1"] = TimeoutAbsent
    /\ last.pre = EmptyDict
    /\ Get(status["desk-1"], "lastPhase") = "Plucked"
    /\ status["desk-1"]["expiryTime"] = last.at + 3600000

\* C35: a run of the already-provisioned branch fills in only the time
\* fields that are missing: on a status that has startTime but no
\* expiryTime it adds expiryTime and leaves startTime, virtualMachineRef and
\* lastPhase as they were.
C35_BackfillPreserves ==
    [][ \A cd \in Desks :
          (/\ CreateStep(cd)
           /\ IsProvisioned(status[cd])
           /\ last'.outcome = "done"
           /\ "startTime" \in DOMAIN status[cd]
           /\ "expiryTime" \notin DOMAIN status[cd])
          => /\ "expiryTime" \in DOMAIN status'[cd]
             /\ \A k \in {"startTime", "virtualMachineRef", "lastPhase"} :
                   Get(status'[cd], k) = Get(status[cd], k)
      ]_vars

\* C36: after a run of the already-provisioned branch that went through,
\* the VM named in the Cyberdesk's virtualMachineRef carries the template
\* label cyberdesk-instance and the hostname equal to the Cyberdesk's name,
\* plucked or cloned, and the run changed nothing of the identity the VM
\* had (re-asserting the patch is a no-op).
C36_IdentityLabels ==
    [][ \A cd \in Desks :
          (/\ CreateStep(cd)
           /\ IsProvisioned(status[cd])
           /\ last'.outcome = "done")
          => LET vm_ref == status[cd]["virtualMachineRef"]
             IN  /\ vms'[vm_ref].instance = cd
                 /\ vms'[vm_ref].hostname = cd
                 /\ vms'[vm_ref].instance = vms[vm_ref].instance
                 /\ vms'[vm_ref].hostname = vms[vm_ref].hostname
      ]_vars

\* C37: when proxy_vnc dials for /vnc/ws/{id}, it dials the VMI of the VM
\* named in the virtualMachineRef of Cyberdesk id's status (for a plucked
\* instance a name other than id); when the Cyberdesk or its
\* virtualMachineRef is missing the session is refused with an error close.
C37_VncTarget ==
    [][ (vnc.pc = "configured" /\ vnc'.pc # "configured")
        => LET id     == vnc.vm_id
               vm_ref == Get(status[id], "virtualMachineRef")
           IN  IF crState[id] = "present" /\ vm_ref # None
               THEN vnc'.target = vm_ref
               ELSE /\ vnc'.pc = "closed"
                    /\ vnc'.code = WS_1011_INTERNAL_ERROR
                    /\ ~vnc'.established
      ]_vars

\* C38: the three tasks of a session run next to each other from the dial
\* on; as soon as one of them has returned or raised, proxy_vnc can go on,
\* and once it has, no task is running and the backend connection is
\* closed, whichever task ended first and however it ended.
C38_VncSessionRace ==
    /\ (vnc.pc = "relaying" /\ vnc.tasks = 3)
       => \A t \in VncTasks : vnc.task[t] = "running"
    /\ (vnc.pc = "relaying" /\ \E t \in VncTasks : vnc.task[t] \in {"returned", "raised"})
       => ENABLED VncRelayEnd
    /\ (vnc.pc = "relaying" /\ \A t \in VncTasks : vnc.task[t] = "running")
       => ~ENABLED VncRelayEnd
    /\ vnc.pc = "finished"
       => /\ \A t \in VncTasks : vnc.task[t] \in {"returned", "raised", "cancelled"}
          /\ \E t \in VncTasks : vnc.task[t] # "cancelled"
          /\ vnc.tasks = 0
          /\ ~vnc.backend

\* C38's case: the browser went away, its relay returned, and the session
\* ended with the other relay and the ping cancelled and the backend closed.
C38_Witness ==
    /\ vnc.pc = "finished"
    /\ vnc.task["browser_to_k8s"] = "returned"
    /\ vnc.task["k8s_to_browser"] = "cancelled"
    /\ vnc.task["ping"] = "cancelled"
    /\ ~vnc.backend

----------------------------------------------------------------------------
(* Properties of the gateway's answers *)

\* C39: the stream URL the ready handler writes and returns for an
\* instance id depends on the id alone: a ready call that succeeds for an id
\* whose row already carries the URL of an earlier call returns that same
\* URL, whatever the gateway's load-balancer service reports at the time.
C39_StreamUrlDeterminism ==
    [][ \A vm_id \in Desks :
          (/\ sync'.h = "ready" /\ sync'.instance = vm_id
           /\ sync'.code = 200
           /\ stream[vm_id] # None)
          => /\ sync'.stream_url = stream[vm_id]
             /\ stream'[vm_id] = stream[vm_id]
      ]_vars

\* C40: outside the cluster, a proxied call whose pod lookup was answered
\* and found no pod for the VM id is answered 404, one that found the pod
\* in another phase than Running is answered 503, and in both cases no
\* request is sent on to the VM.
C40_PodDiscoveryErrors ==
    [][ \A vm_id \in Desks :
          (/\ resp'.op # "none" /\ resp'.vm_id = vm_id
           /\ ~inCluster /\ resp'.listed)
          => /\ pods[vm_id] = 0
                => resp'.code = 404 /\ resp'.vm = NoVmCall
             /\ (pods[vm_id] = 1 /\ ~podRunning[vm_id])
                => resp'.code = 503 /\ resp'.vm = NoVmCall
      ]_vars

====
